---- MODULE Spec2Model ----
(***************************************************************************)
(* The process table, the round-robin scheduler and the machine-mode trap  *)
(* dispatcher of the RISC-V kernel in src/risc_v/src, on one hart.         *)
(*                                                                         *)
(* Spec     the kernel as it runs after kinit: traps (timer, fatal faults, *)
(*          system calls, block-device completions) interleaved with the   *)
(*          process-context steps of the kernel helpers test_elf and       *)
(*          exec_func.  schedule()'s search loop is one step per           *)
(*          iteration, since the loop has no bound in the code.            *)
(* LiveSpec Spec with a clock that keeps advancing, timer interrupts that  *)
(*          keep being taken and a trap handler that keeps executing.      *)
(* ApiSpec  what the traps and the block driver call on the process table  *)
(*          (block_op, pending, delete_process, execv, the mutex), in any  *)
(*          order.                                                         *)
(* TableSpec the process table's own entry points (set_running,            *)
(*          set_waiting, set_sleeping, delete_process, get_by_pid,         *)
(*          add_kernel_process_args, schedule), in any order with any pid. *)
(* IrqSpec  Spec with external interrupts of any claim number taken        *)
(*          through plic::handle_interrupt.                                *)
(* KmemSpec the byte allocator of ch3/src/kmem.rs: kmalloc, kzmalloc and   *)
(*          kfree in any order on a pool of MaxHeapWords words.            *)
(* CoalesceSpec kfree on a pool whose headers hold any content.            *)
(* SyscallSpec do_syscall on any of its inputs.                            *)
(* PageSpec processes built by ch8's new_default on the page allocator and *)
(*          torn down by Drop, in any order.                               *)
(* MapSpec  ch3's kinit building the kernel page table with page::map and  *)
(*          id_map_range, read back with virt_to_phys.                     *)
(* WindowSpec block reads and their completions while a process-context    *)
(*          routine has the table out of PROCESS_LIST.                     *)
(* CreateSpec the process-creation entry points with the mutex held or the *)
(*          table taken out by another context.                            *)
(***************************************************************************)
EXTENDS Integers, Sequences, FiniteSets, TLC

VARIABLES
    PROCESS_LIST,        \* process.rs:46  Option<VecDeque<Process>>: [some, v]
    PROCESS_LIST_MUTEX,  \* process.rs:47  "Unlocked" / "Locked"
    NEXT_PID,            \* process.rs:50  u16
    pl,                  \* the deque a context moved out of PROCESS_LIST with take()
    hart,                \* what hart 0 executes: "boot", "proc", "sched", "wild", "panic", "spin", "api"
    cur,                 \* address of the live trap frame (mscratch)
    trap,                \* the trap being served while schedule() loops
    mtime,               \* MMIO_MTIME
    mtimecmp,            \* MMIO_MTIMECMP
    ring,                \* watcher pids of the block requests the device has not completed
    ub,                  \* an access through a null Process pointer has happened
    freed,               \* history: what Process::drop has deallocated, in order
    created,             \* history: pids in the order processes were built
    hist,                \* history: frames returned by lock-acquiring schedule() calls since the table last changed
    last,                \* history: the last operation that completed and what it returned
    kmem,                \* ch3 kmem.rs:54  the words of the pool KMEM_HEAD points at
    kptrs,               \* history: the pointers kmalloc and kzmalloc have returned
    pages                \* the page allocator, the page tables and the processes built on them

vars == <<PROCESS_LIST, PROCESS_LIST_MUTEX, NEXT_PID, pl, hart, cur, trap,
          mtime, mtimecmp, ring, ub, freed, created, hist, last, kmem, kptrs,
          pages>>

\* The state of the subsystems that the process table's operations leave alone.
others == <<kmem, kptrs, pages>>

-----------------------------------------------------------------------------
(* Bounds of the model *)
MaxPid == 7          \* no process is built once NEXT_PID has reached this
MaxTicks == 6        \* mtime stops advancing after this many ticks
MaxScan == 6         \* cap of the loop-iteration counter of schedule()
MaxApiPid == 5       \* ApiSpec: no process is added once NEXT_PID has reached this
MaxRing == 2         \* ApiSpec: requests the block device holds at once
MaxTablePid == 4     \* TableSpec: no process is added once NEXT_PID has reached this
MaxHeapWords == 5    \* KmemSpec: the 8-byte words of the pool that stands for the 64 pages
MaxImageWords == 4   \* CoalesceSpec: the 8-byte words of a pool whose content is arbitrary
MaxPages == 18       \* PageSpec: the pages the page allocator hands out
MaxProcs == 2        \* PageSpec: the processes alive at once
MaxCodePages == 2    \* PageSpec: the code pages new_default maps (101 in the code)
MaxVpn == 4          \* PageSpec: the highest index of a page table (511 in the code)

(* Program constants *)
CONTEXT_SWITCH_TIME == 20000
DEFAULT_LOCK_SLEEP == 10000
NoChange == 0
Placeholder == 4369
U16 == 65536

TickStep == CONTEXT_SWITCH_TIME \div 2
MaxTime == MaxTicks * TickStep
Durations == {DEFAULT_LOCK_SLEEP, 3 * DEFAULT_LOCK_SLEEP}
FatalCauses == {2, 7, 12, 13, 15}
MAGIC == 1179403647
MACHINE_RISCV == 243
TYPE_EXEC == 2

(* ELF headers the loaders are given: a well-formed one, and one wrong in  *)
(* each checked field.                                                     *)
Header(magic, machine, obj_type) ==
    [magic |-> magic, machine |-> machine, obj_type |-> obj_type]
GoodImage == Header(MAGIC, MACHINE_RISCV, TYPE_EXEC)
Images == {GoodImage,
           Header(0, MACHINE_RISCV, TYPE_EXEC),
           Header(MAGIC, 62, TYPE_EXEC),
           Header(MAGIC, MACHINE_RISCV, 1)}
NoImage == Header(0, 0, 0)

-----------------------------------------------------------------------------
(* Option<VecDeque<Process>> *)
None == [some |-> FALSE, v |-> <<>>]
Some(q) == [some |-> TRUE, v |-> q]

(* struct Process.  frame is the address of its TrapFrame page (a page     *)
(* index, never 0); prog/pc/arg abstract the frame's saved program         *)
(* counter and A0; mine is the Process a loader has built and not yet      *)
(* pushed; id, parent (the id of the process whose execv spawned it) and   *)
(* waited are history fields.  mode and frame_pid are the frame's mode and *)
(* pid words: every constructor stores the pid there, CpuMode::Machine for *)
(* a kernel function and CpuMode::User for a loaded program.               *)
Process(id, pid, frame, prog, arg) ==
    [id |-> id, pid |-> pid, state |-> "Running", sleep_until |-> 0,
     frame |-> frame, prog |-> prog, pc |-> "start", arg |-> arg,
     mode |-> IF prog = "user" THEN "User" ELSE "Machine", frame_pid |-> pid,
     mine |-> <<>>, parent |-> 0, waited |-> 0]

Range(s) == {s[i] : i \in 1..Len(s)}

(***************************************************************************)
(* Pages and page tables.  A page is a number in 1..MaxPages, 0 the null   *)
(* pointer and the kernel's own pages, which the allocator does not hand   *)
(* out.  st.taken are the allocated pages, st.len[p] the length of the run *)
(* that starts at p, st.tbl the valid entries of the pages used as tables: *)
(* [page, idx, leaf, ppn].  A virtual address is <<vpn2, vpn1, vpn0>>.     *)
(***************************************************************************)
STACK_PAGES == 2                 \* ch8 process.rs:24
STACK_ADDR == <<4, 0, 0>>        \* ch8 process.rs:27  0x1_0000_0000 as <<vpn2, vpn1, vpn0>>
(* page::align_val: val rounded up to a multiple of 2^order *)
align_val(val, order) == ((val + (2^order - 1)) \div (2^order)) * (2^order)

PAGE_SIZE == 4096                \* main.rs:120  1 << 12
NoPages == [taken |-> {}, len |-> [p \in 1..MaxPages |-> 0], tbl |-> {},
            procs |-> <<>>, gone |-> <<>>, log |-> <<>>, root |-> 0, maps |-> {}]

(* v given the name x in F(x): evaluated once, however often F uses it *)
Bind(v, F(_)) == CHOOSE r \in {F(x) : x \in {v}} : TRUE

(* page::alloc(n): the lowest run of n free pages, null if there is none *)
page_alloc(st, n) ==
    Bind(st, LAMBDA s :
    Bind({p \in 1..(MaxPages - n + 1) : \A q \in p..(p + n - 1) : q \notin s.taken},
         LAMBDA fits :
    Bind(IF fits = {} THEN 0 ELSE CHOOSE p \in fits : \A q \in fits : p <= q,
         LAMBDA ptr :
    IF ptr = 0 THEN [st |-> s, ptr |-> 0]
    ELSE [st |-> [s EXCEPT !.taken = @ \cup ptr..(ptr + n - 1), !.len[ptr] = n],
          ptr |-> ptr])))

(* page::zalloc(n): alloc, then the pages are cleared *)
page_zalloc(st, n) ==
    Bind(page_alloc(st, n), LAMBDA a :
    [a EXCEPT !.st.tbl = {e \in @ : e.page \notin a.ptr..(a.ptr + n - 1)}])

(* page::dealloc(ptr): the pages of the run that starts at ptr *)
page_dealloc(st, ptr) == [i \in 1..st.len[ptr] |-> ptr + i - 1]

(* a map that leaves a leaf entry alone once it is valid *)
map_keeps_old_leaf(st, root, vaddr, paddr) ==
    LET map_level(st0, t, idx) ==
            Bind(st0, LAMBDA s :
            Bind({x \in s.tbl : x.page = t /\ x.idx = idx}, LAMBDA e :
            IF e # {}
            THEN [st |-> s, ptr |-> (CHOOSE x \in e : TRUE).ppn, made |-> <<>>]
            ELSE Bind(page_zalloc(s, 1), LAMBDA a :
                 [st |-> [a.st EXCEPT !.tbl = @ \cup {[page |-> t, idx |-> idx,
                                                       leaf |-> FALSE, ppn |-> a.ptr]}],
                  ptr |-> a.ptr, made |-> <<a.ptr>>])))
    IN  Bind(map_level(st, root, vaddr[1]), LAMBDA l1 :
        Bind(map_level(l1.st, l1.ptr, vaddr[2]), LAMBDA l0 :
        [st |-> IF \E x \in l0.st.tbl : x.page = l0.ptr /\ x.idx = vaddr[3]
                THEN l0.st
                ELSE [l0.st EXCEPT !.tbl = @ \cup {[page |-> l0.ptr, idx |-> vaddr[3],
                                                    leaf |-> TRUE, ppn |-> paddr]}],
         made |-> l1.made \o l0.made]))

(* page::map(root, vaddr, paddr, bits, 0): at each of the two upper levels *)
(* the table the entry points to, allocated and entered if the entry is   *)
(* not valid; made are the table pages allocated on the way down           *)
map(st, root, vaddr, paddr) ==
    LET map_level(st0, t, idx) ==
            Bind(st0, LAMBDA s :
            Bind({x \in s.tbl : x.page = t /\ x.idx = idx}, LAMBDA e :
            IF e # {}
            THEN [st |-> s, ptr |-> (CHOOSE x \in e : TRUE).ppn, made |-> <<>>]
            ELSE Bind(page_zalloc(s, 1), LAMBDA a :
                 [st |-> [a.st EXCEPT !.tbl = @ \cup {[page |-> t, idx |-> idx,
                                                       leaf |-> FALSE, ppn |-> a.ptr]}],
                  ptr |-> a.ptr, made |-> <<a.ptr>>])))
    IN  Bind(map_level(st, root, vaddr[1]), LAMBDA l1 :
        Bind(map_level(l1.st, l1.ptr, vaddr[2]), LAMBDA l0 :
        [st |-> [l0.st EXCEPT !.tbl = {x \in @ : ~(x.page = l0.ptr /\ x.idx = vaddr[3])}
                                      \cup {[page |-> l0.ptr, idx |-> vaddr[3],
                                             leaf |-> TRUE, ppn |-> paddr]}],
         made |-> l1.made \o l0.made]))

(* page::unmap(root): the pages it deallocates, in order: under every      *)
(* branch entry of the root the level-0 tables, then the level-1 table     *)
unmap(st, root) ==
    LET Branch(t, i) == {x \in st.tbl : x.page = t /\ x.idx = i /\ ~x.leaf}
        Child(t, i) == (CHOOSE x \in Branch(t, i) : TRUE).ppn
        RECURSIVE Lv1(_, _)
        Lv1(t, i) == IF i > MaxVpn THEN <<>>
                     ELSE (IF Branch(t, i) # {} THEN <<Child(t, i)>> ELSE <<>>)
                          \o Lv1(t, i + 1)
        RECURSIVE Lv2(_)
        Lv2(i) == IF i > MaxVpn THEN <<>>
                  ELSE (IF Branch(root, i) # {}
                        THEN Lv1(Child(root, i), 0) \o <<Child(root, i)>> ELSE <<>>)
                       \o Lv2(i + 1)
    IN  Lv2(0)

(* page::virt_to_phys(root, vaddr): map's walk, read only; None at the     *)
(* first entry that is not valid                                           *)
virt_to_phys(st, root, vaddr) ==
    LET Entry(t, i) == {x \in st.tbl : x.page = t /\ x.idx = i}
        Ppn(t, i) == (CHOOSE x \in Entry(t, i) : TRUE).ppn
        Leaf(t, i) == (CHOOSE x \in Entry(t, i) : TRUE).leaf
    IN  IF Entry(root, vaddr[1]) = {} \/ Leaf(root, vaddr[1]) THEN None
        ELSE IF Entry(Ppn(root, vaddr[1]), vaddr[2]) = {}
                \/ Leaf(Ppn(root, vaddr[1]), vaddr[2]) THEN None
        ELSE IF Entry(Ppn(Ppn(root, vaddr[1]), vaddr[2]), vaddr[3]) = {} THEN None
        ELSE Some(Ppn(Ppn(Ppn(root, vaddr[1]), vaddr[2]), vaddr[3]))

(* the three 9-bit slices of a virtual address that map's walk uses *)
vpn(addr) == <<addr \div 2^30, (addr \div 2^21) % 512, (addr \div PAGE_SIZE) % 512>>

(* id_map_range(root, start, end, bits), for start <= end: calls are the   *)
(* addresses it passed to map, made the table pages map allocated          *)
id_map_range(st, root, start, end) ==
    LET memaddr == start - (start % PAGE_SIZE)
        num_kb_pages == (align_val(end, 12) - memaddr) \div PAGE_SIZE
        RECURSIVE Loop(_, _)
        Loop(s, i) ==
            IF i >= num_kb_pages THEN [st |-> s, made |-> <<>>, calls |-> <<>>]
            ELSE Bind(map(s, root, vpn(memaddr + i * PAGE_SIZE), memaddr + i * PAGE_SIZE),
                      LAMBDA m :
                 Bind(Loop(m.st, i + 1), LAMBDA r :
                 [st |-> r.st, made |-> m.made \o r.made,
                  calls |-> <<memaddr + i * PAGE_SIZE>> \o r.calls]))
    IN  Loop(st, 0)

(* ch8 Process::new_default(func): the frame, the stack and the root, the  *)
(* stack mapped at STACK_ADDR, then the code pages from func on and the    *)
(* page at 0x8000_0000 mapped onto themselves (paddr 0: the kernel's own   *)
(* pages).  stack_tables and tables are history: the table pages the stack *)
(* mappings and all mappings made.                                         *)
new_default(st, func) ==
    LET RECURSIVE map_pages(_, _, _, _, _, _)
        map_pages(s, root, vaddr, paddr, i, n) ==
            IF i >= n THEN [st |-> s, made |-> <<>>]
            ELSE Bind(map(s, root, <<vaddr[1], vaddr[2], vaddr[3] + i>>,
                          IF paddr = 0 THEN 0 ELSE paddr + i), LAMBDA m :
                 Bind(map_pages(m.st, root, vaddr, paddr, i + 1, n), LAMBDA r :
                 [st |-> r.st, made |-> m.made \o r.made]))
    IN  Bind(page_zalloc(st, 1), LAMBDA frame :
        Bind(page_alloc(frame.st, STACK_PAGES), LAMBDA stack :
        Bind(page_zalloc(stack.st, 1), LAMBDA root :
        Bind(map_pages(root.st, root.ptr, STACK_ADDR, stack.ptr, 0, STACK_PAGES),
             LAMBDA stk :
        Bind(map_pages(stk.st, root.ptr, func, 0, 0, MaxCodePages), LAMBDA code :
        Bind(map(code.st, root.ptr, <<2, 0, 0>>, 0), LAMBDA sys :
        Bind(stk.made \o code.made \o sys.made, LAMBDA made :
        [st |-> sys.st,
         ok |-> 0 \notin {frame.ptr, stack.ptr, root.ptr} \cup Range(made),
         proc |-> [frame |-> frame.ptr, stack |-> stack.ptr, root |-> root.ptr,
                   stack_tables |-> Range(stk.made), tables |-> Range(made)]])))))))

(***************************************************************************)
(* The byte allocator of ch3/src/kmem.rs.  The pool is a sequence of       *)
(* 8-byte words; an address is a byte offset from KMEM_HEAD, and a pointer *)
(* value of 0 stands for null (no block's data starts at offset 0).  A     *)
(* word read as an AllocList is [taken, size]: bit 63 and the other bits   *)
(* of flags_size.  Request sizes stay far below 2^63.                      *)
(***************************************************************************)
HeaderSize == 8                              \* size_of::<AllocList>()
ZeroWord == [taken |-> FALSE, size |-> 0]    \* a word of a zeroed page

is_taken(w) == w.taken
is_free(w) == ~is_taken(w)
set_taken(w) == [w EXCEPT !.taken = TRUE]
set_free(w) == [w EXCEPT !.taken = FALSE]
set_size(w, sz) == [taken |-> is_taken(w), size |-> sz]
get_size(w) == w.size

Word(mem, a) == mem[(a \div 8) + 1]
Store(mem, a, w) == [mem EXCEPT ![(a \div 8) + 1] = w]
(* KMEM_HEAD + KMEM_ALLOC * PAGE_SIZE *)
tail(mem) == 8 * Len(mem)

(* kmem::init: the zeroed pool zalloc returns, its first word one free block *)
kmem_init ==
    [i \in 1..MaxHeapWords |->
        IF i = 1 THEN set_size(set_free(ZeroWord), 8 * MaxHeapWords) ELSE ZeroWord]

(* kmalloc that hands out the whole block whenever it fits *)
kmalloc_take_never_splits(mem, head, size) ==
    LET h == Word(mem, head)
        m1 == Store(mem, head, set_taken(h))
    IN  Store(m1, head, set_size(Word(m1, head), get_size(h)))

(* kmalloc that splits whenever anything at all remains *)
kmalloc_take_splits_any(mem, head, size) ==
    LET h == Word(mem, head)
        rem == get_size(h) - size
        m1 == Store(mem, head, set_taken(h))
    IN  IF rem > 0
        THEN LET next == head + size
                 m2 == Store(m1, next, set_size(set_free(Word(m1, next)), rem))
             IN  Store(m2, head, set_size(Word(m2, head), size))
        ELSE Store(m1, head, set_size(Word(m1, head), get_size(h)))

(* kmalloc that gives the split-off block the size of the whole chunk *)
kmalloc_take_whole_remainder(mem, head, size) ==
    LET h == Word(mem, head)
        m1 == Store(mem, head, set_taken(h))
    IN  IF get_size(h) - size > HeaderSize
        THEN LET next == head + size
                 m2 == Store(m1, next, set_size(set_free(Word(m1, next)), get_size(h)))
             IN  Store(m2, head, set_size(Word(m2, head), size))
        ELSE Store(m1, head, set_size(Word(m1, head), get_size(h)))

(* the body of kmalloc's if: take the block at head for size bytes *)
kmalloc_take(mem, head, size) ==
    LET h == Word(mem, head)
        chunk_size == get_size(h)
        rem == chunk_size - size
        m1 == Store(mem, head, set_taken(h))
    IN  IF rem > HeaderSize
        THEN LET next == head + size
                 m2 == Store(m1, next, set_size(set_free(Word(m1, next)), rem))
             IN  Store(m2, head, set_size(Word(m2, head), size))
        ELSE Store(m1, head, set_size(Word(m1, head), chunk_size))

(* kmalloc that takes any free block without comparing sizes *)
kmalloc_fits_any(h, size) == is_free(h)

(* the condition of kmalloc's if *)
kmalloc_fits(h, size) == is_free(h) /\ size <= get_size(h)

(* kmalloc's while loop from head on; a block of size zero that does not   *)
(* fit keeps head where it is, and the loop never ends                     *)
RECURSIVE kmalloc_loop(_, _, _)
kmalloc_loop(mem, size, head) ==
    IF head >= tail(mem)
    THEN [mem |-> mem, ret |-> 0, hangs |-> FALSE]
    ELSE LET h == Word(mem, head)
         IN  IF kmalloc_fits(h, size)
             THEN [mem |-> kmalloc_take(mem, head, size), ret |-> head + HeaderSize,
                   hangs |-> FALSE]
             ELSE IF get_size(h) = 0
                  THEN [mem |-> mem, ret |-> 0, hangs |-> TRUE]
                  ELSE kmalloc_loop(mem, size, head + get_size(h))

kmalloc(mem, sz) == kmalloc_loop(mem, align_val(sz, 3) + HeaderSize, 0)

(* kzmalloc: kmalloc, then size zero bytes from the returned pointer on *)
kzmalloc(mem, sz) ==
    LET size == align_val(sz, 3)
        r == kmalloc(mem, size)
    IN  IF r.ret # 0
        THEN [r EXCEPT !.mem = [i \in 1..Len(mem) |->
                                   IF 8 * (i - 1) >= r.ret /\ 8 * (i - 1) < r.ret + size
                                   THEN ZeroWord ELSE r.mem[i]]]
        ELSE r

(* coalesce that merges a free block with whatever follows it *)
coalesce_merges(h, n) == is_free(h)

(* the condition under which coalesce merges the block at head with next *)
coalesce_merges_free(h, n) == is_free(h) /\ is_free(n)

(* coalesce's while loop from head on; zero tells that the loop was left   *)
(* through the break taken at a block of size zero                         *)
RECURSIVE coalesce_loop(_, _)
coalesce_loop(mem, head) ==
    IF head >= tail(mem)
    THEN [mem |-> mem, zero |-> FALSE]
    ELSE LET h == Word(mem, head)
             next == head + get_size(h)
         IN  IF get_size(h) = 0
             THEN [mem |-> mem, zero |-> TRUE]
             ELSE IF next >= tail(mem)
                  THEN [mem |-> mem, zero |-> FALSE]
                  ELSE IF coalesce_merges_free(h, Word(mem, next))
                       THEN LET m1 == Store(mem, head,
                                            set_size(h, get_size(h)
                                                        + get_size(Word(mem, next))))
                            IN  coalesce_loop(m1, head + get_size(Word(m1, head)))
                       ELSE coalesce_loop(mem, head + get_size(h))

coalesce(mem) == coalesce_loop(mem, 0)

(* kfree: ret tells that the call came back to its caller *)
kfree(mem, ptr) ==
    IF ptr # 0
    THEN LET p == ptr - HeaderSize
             m1 == IF is_taken(Word(mem, p)) THEN Store(mem, p, set_free(Word(mem, p)))
                   ELSE mem
             c == coalesce(m1)
         IN  [mem |-> c.mem, zero |-> c.zero, ret |-> 1]
    ELSE [mem |-> mem, zero |-> FALSE, ret |-> 1]

(* The blocks a walk from head by size visits (kmalloc and coalesce start  *)
(* at KMEM_HEAD, address 0), up to the pool's end or a block of size zero. *)
RECURSIVE Blocks(_, _)
Blocks(mem, head) ==
    IF head >= tail(mem) THEN <<>>
    ELSE LET h == Word(mem, head)
         IN  IF get_size(h) = 0 THEN <<[addr |-> head, size |-> 0, taken |-> is_taken(h)]>>
             ELSE <<[addr |-> head, size |-> get_size(h), taken |-> is_taken(h)]>>
                  \o Blocks(mem, head + get_size(h))
Ids(S) == {p.id : p \in S}

(* Every Process that exists: in the table, in a moved-out deque, or built *)
(* and held by a loader.                                                   *)
Table == IF PROCESS_LIST.some THEN PROCESS_LIST.v ELSE pl
Held(q) == UNION {Range(p.mine) : p \in Range(q)}
AllProcs(q) == Range(q) \cup Held(q)
Frames(q) == {p.frame : p \in Range(q)}

(* page::zalloc(1): the lowest free page *)
zalloc(used) ==
    CHOOSE f \in 1..(Cardinality(used) + 1) :
        f \notin used /\ \A g \in 1..(f - 1) : g \in used

-----------------------------------------------------------------------------
(* lock.rs *)

(* a try_lock that reads the state and does not write it *)
try_lock_test_only(m) == [ok |-> m = "Unlocked", m |-> m]

(* a try_lock that reports success whatever the old state was *)
try_lock_always(m) == [ok |-> TRUE, m |-> "Locked"]

(* Mutex::try_lock: amoswap writes Locked and yields the old state *)
try_lock(m) == [ok |-> m = "Unlocked", m |-> "Locked"]

(* Mutex::unlock: stores Unlocked whatever the state was *)
unlock(m) == "Unlocked"

-----------------------------------------------------------------------------
(* process.rs: the table operations.  Each takes the value of              *)
(* PROCESS_LIST and yields its new value and the call's result.            *)

Min(S) == CHOOSE x \in S : \A y \in S : x <= y

(* a search that settles for the front entry when the pid is absent *)
FirstIdx_or_front(q, pid) ==
    LET hits == {i \in 1..Len(q) : q[i].pid = pid}
    IN  IF hits = {} THEN (IF Len(q) > 0 THEN 1 ELSE 0) ELSE Min(hits)

(* index of the first entry with this pid, 0 when there is none *)
FirstIdx(q, pid) ==
    LET hits == {i \in 1..Len(q) : q[i].pid = pid}
    IN  IF hits = {} THEN 0 ELSE Min(hits)

ResetWaited(q) == [i \in 1..Len(q) |-> [q[i] EXCEPT !.waited = 0]]

RemoveAt(q, i) == SubSeq(q, 1, i - 1) \o SubSeq(q, i + 1, Len(q))

(* a set_running that also moves the process to the back of the deque *)
set_running_requeue(opt, pid) ==
    LET i == FirstIdx(opt.v, pid)
    IN  IF opt.some /\ i > 0
        THEN [opt |-> Some(Append(RemoveAt(opt.v, i),
                                  [opt.v[i] EXCEPT !.state = "Running"])),
              ret |-> TRUE]
        ELSE [opt |-> opt, ret |-> FALSE]

set_running(opt, pid) ==
    LET i == FirstIdx(opt.v, pid)
    IN  IF opt.some /\ i > 0
        THEN [opt |-> Some([opt.v EXCEPT ![i].state = "Running"]), ret |-> TRUE]
        ELSE [opt |-> opt, ret |-> FALSE]

set_waiting(opt, pid) ==
    LET i == FirstIdx(opt.v, pid)
    IN  IF opt.some /\ i > 0
        THEN [opt |-> Some([opt.v EXCEPT ![i].state = "Waiting", ![i].waited = 0]),
              ret |-> TRUE]
        ELSE [opt |-> opt, ret |-> FALSE]

set_sleeping(opt, pid, now, duration) ==
    LET i == FirstIdx(opt.v, pid)
    IN  IF opt.some /\ i > 0
        THEN [opt |-> Some([opt.v EXCEPT ![i].state = "Sleeping",
                                         ![i].sleep_until = now + duration,
                                         ![i].waited = 0]),
              ret |-> TRUE]
        ELSE [opt |-> opt, ret |-> FALSE]

(* a delete_process that removes nothing *)
delete_process_none(opt, pid) == opt

(* a delete_process built on VecDeque::swap_remove_back: the back entry    *)
(* takes the removed entry's place                                         *)
delete_process_swap(opt, pid) ==
    LET i == FirstIdx(opt.v, pid)
        n == Len(opt.v)
    IN  IF opt.some /\ i > 0
        THEN Some(ResetWaited(RemoveAt([opt.v EXCEPT ![i] = opt.v[n]], n)))
        ELSE opt

(* a delete_process that is off by one: it removes the entry behind the    *)
(* one with the pid (the front, from the back)                             *)
delete_process_next(opt, pid) ==
    LET i == FirstIdx(opt.v, pid)
    IN  IF opt.some /\ i > 0
        THEN Some(ResetWaited(RemoveAt(opt.v, (i % Len(opt.v)) + 1)))
        ELSE opt

(* a delete_process that drops the back of the deque *)
delete_process_last(opt, pid) ==
    LET i == FirstIdx(opt.v, pid)
    IN  IF opt.some /\ i > 0
        THEN Some(ResetWaited(RemoveAt(opt.v, Len(opt.v))))
        ELSE opt

delete_process(opt, pid) ==
    LET i == FirstIdx(opt.v, pid)
    IN  IF opt.some /\ i > 0
        THEN Some(ResetWaited(RemoveAt(opt.v, i)))
        ELSE opt

(* a teardown that releases the register frame before the stack *)
drop_frame_first(p) ==
    <<[id |-> p.id, what |-> "frame"],
      [id |-> p.id, what |-> "stack"],
      [id |-> p.id, what |-> "branches"],
      [id |-> p.id, what |-> "root"]>>
    \o (IF p.prog = "user" THEN <<[id |-> p.id, what |-> "program"]>> ELSE <<>>)

(* impl Drop for Process: the deallocations, in the code's order; only a   *)
(* loaded program has a non-null program pointer                           *)
drop(p) ==
    <<[id |-> p.id, what |-> "stack"],
      [id |-> p.id, what |-> "branches"],
      [id |-> p.id, what |-> "root"],
      [id |-> p.id, what |-> "frame"]>>
    \o (IF p.prog = "user" THEN <<[id |-> p.id, what |-> "program"]>> ELSE <<>>)

(* what is deallocated when the table goes from before to after: the       *)
(* Process that pl.remove(i) returned goes out of scope and is dropped     *)
Teardown(before, after) ==
    LET gone == SelectSeq(before.v, LAMBDA p : p.id \notin Ids(Range(after.v)))
    IN  IF before.some /\ gone # <<>> THEN drop(gone[1]) ELSE <<>>

(* get_by_pid: the index of the Process found, 0 for the null pointer *)
get_by_pid(opt, pid) ==
    IF opt.some THEN FirstIdx(opt.v, pid) ELSE 0

(* an add_kernel_process_args that queues the new process at the front *)
add_kernel_process_args_front(opt, m, next_pid, used, id, func, args) ==
    IF ~try_lock(m).ok
    THEN [spin |-> TRUE, opt |-> opt, m |-> "Locked", next_pid |-> next_pid, pid |-> 0]
    ELSE IF opt.some
    THEN [spin |-> FALSE,
          opt |-> Some(ResetWaited(
                     <<Process(id, next_pid, zalloc(used), func, args)>> \o opt.v)),
          m |-> unlock("Locked"),
          next_pid |-> (next_pid + 1) % U16,
          pid |-> next_pid]
    ELSE [spin |-> FALSE, opt |-> opt, m |-> unlock("Locked"),
          next_pid |-> next_pid, pid |-> 0]

(* add_kernel_process_args, entered with the mutex in state m.  spin is    *)
(* TRUE when spin_lock never returns.                                      *)
add_kernel_process_args(opt, m, next_pid, used, id, func, args) ==
    IF ~try_lock(m).ok
    THEN [spin |-> TRUE, opt |-> opt, m |-> "Locked", next_pid |-> next_pid, pid |-> 0]
    ELSE IF opt.some
    THEN [spin |-> FALSE,
          opt |-> Some(ResetWaited(
                     Append(opt.v, Process(id, next_pid, zalloc(used), func, args)))),
          m |-> unlock("Locked"),
          next_pid |-> (next_pid + 1) % U16,
          pid |-> next_pid]
    ELSE [spin |-> FALSE, opt |-> opt, m |-> unlock("Locked"),
          next_pid |-> next_pid, pid |-> 0]

-----------------------------------------------------------------------------
(* elf.rs *)

(* File::load: the three header checks, in the code's order *)
load(img) ==
    IF img.magic # MAGIC THEN "Magic"
    ELSE IF img.machine # MACHINE_RISCV THEN "Machine"
    ELSE IF img.obj_type # TYPE_EXEC THEN "TypeExec"
    ELSE "Ok"

(* a load_proc that takes its pid before it checks the header *)
load_proc_eager(img, next_pid, used, id) ==
    [err |-> load(img),
     next_pid |-> (next_pid + 1) % U16,
     proc |-> IF load(img) = "Ok"
              THEN <<Process(id, (next_pid + 1) % U16, zalloc(used), "user", NoImage)>>
              ELSE <<>>]

(* File::load_proc: on Ok, NEXT_PID + 1 becomes both the pid and NEXT_PID *)
load_proc(img, next_pid, used, id) ==
    IF load(img) # "Ok"
    THEN [err |-> load(img), next_pid |-> next_pid, proc |-> <<>>]
    ELSE [err |-> "Ok",
          next_pid |-> (next_pid + 1) % U16,
          proc |-> <<Process(id, (next_pid + 1) % U16, zalloc(used), "user", NoImage)>>]

(* add_kernel_process: as above but without taking the mutex; the pid is   *)
(* consumed before the table is looked at, and the failure path unlocks.   *)
add_kernel_process(opt, m, next_pid, used, id, func) ==
    IF opt.some
    THEN [opt |-> Some(ResetWaited(
                     Append(opt.v, Process(id, next_pid, zalloc(used), func, NoImage)))),
          m |-> m, next_pid |-> (next_pid + 1) % U16, pid |-> next_pid]
    ELSE [opt |-> opt, m |-> unlock(m), next_pid |-> (next_pid + 1) % U16, pid |-> 0]

(* process::init: creates the table and the init process under the mutex *)
init ==
    add_kernel_process(Some(<<>>), "Locked", 1, {}, 1, "init")

(* main.rs kinit, up to its call of schedule() *)
kinit ==
    LET a == init
        b == add_kernel_process(a.opt, unlock(a.m), a.next_pid,
                                Frames(a.opt.v), 2, "test_elf")
    IN  b

-----------------------------------------------------------------------------
(* sched.rs and the tail of every m_trap arm *)

(* trap: the m_trap arm being served, the trapping frame's pid, and for   *)
(* the history the table as it was when the trap was taken                 *)
NoTrap == [cause |-> "none", pid |-> 0, id |-> 0, scanned |-> 0, len |-> 0,
           before |-> <<>>]
NoLast == [op |-> "none", ret |-> 0, pid |-> 0, id |-> 0, locked |-> FALSE,
           null |-> FALSE, scanned |-> 0, len |-> 0, arg |-> 0, zero |-> FALSE,
           hangs |-> FALSE, irq |-> FALSE, handler |-> "none", completed |-> <<>>,
           a0 |-> 0, open |-> FALSE, translates |-> FALSE, exists |-> FALSE,
           panics |-> FALSE]

(* rotations that leave the deque as it is, or move two entries *)
rotate_left_none(q) == q
rotate_left_two(q) == IF Len(q) < 2 THEN q ELSE Tail(Tail(q)) \o <<q[1], q[2]>>

(* a rotation that exchanges the two entries at the front *)
rotate_left_swap(q) == IF Len(q) < 2 THEN q ELSE <<q[2], q[1]>> \o Tail(Tail(q))

(* VecDeque::rotate_left(1) on a non-empty deque *)
rotate_left(q) == Tail(q) \o <<Head(q)>>

LastN(q, n) == IF Len(q) <= n THEN q ELSE SubSeq(q, Len(q) - n + 1, Len(q))

(* history: one more lock-acquiring schedule() has returned the front *)
Count(q) ==
    [i \in 1..Len(q) |->
        [q[i] EXCEPT !.waited =
            IF i = 1 \/ q[i].state # "Running" THEN 0
            ELSE IF q[i].waited < MaxScan THEN q[i].waited + 1 ELSE MaxScan]]

(* trap.rs schedule_next_context_switch(qm) *)
schedule_next_context_switch(now, old, qm) == now + CONTEXT_SWITCH_TIME * qm

(* rust_switch_to_user(frame): the hart runs whatever the address holds *)
SwitchTo(f, q) ==
    /\ cur' = f
    /\ hart' = IF f \in Frames(q) THEN "proc" ELSE "wild"

(* a timer arm that switches whatever schedule() returned *)
TimerSwitches_always(ret) == TRUE

(* only the timer arm tests the value schedule() returned *)
TimerSwitches(ret) == ret # NoChange

(* schedule() has returned ret to the m_trap arm (or to kinit) tr;        *)
(* opt, m, q are PROCESS_LIST, the mutex and the moved-out deque then,     *)
(* locked tells whether the mutex was found locked.                        *)
Return(tr, ret, opt, m, q, locked, h) ==
    /\ PROCESS_LIST' = opt
    /\ PROCESS_LIST_MUTEX' = m
    /\ pl' = q
    /\ trap' = NoTrap
    /\ hist' = h
    /\ mtimecmp' = IF tr.cause = "boot" THEN mtimecmp
                   ELSE schedule_next_context_switch(mtime, mtimecmp, 1)
    /\ IF tr.cause = "timer" /\ ~TimerSwitches(ret)
       THEN cur' = cur /\ hart' = "proc"
       ELSE SwitchTo(ret, IF opt.some THEN opt.v ELSE q)
    /\ last' = [NoLast EXCEPT !.op = tr.cause, !.ret = ret, !.pid = tr.pid,
                              !.id = tr.id, !.locked = locked,
                              !.scanned = tr.scanned, !.len = tr.len]

(* a schedule() whose early return goes through the unlock as well *)
Schedule_unlocks_on_failure(tr, opt, m, h) ==
    IF ~try_lock(m).ok
    THEN Return(tr, NoChange, opt, unlock(try_lock(m).m), pl, TRUE, h)
    ELSE IF ~opt.some
    THEN Return(tr, Placeholder, opt, unlock(try_lock(m).m), pl, FALSE, h)
    ELSE /\ hart' = "sched"
         /\ PROCESS_LIST' = None
         /\ PROCESS_LIST_MUTEX' = try_lock(m).m
         /\ pl' = opt.v
         /\ trap' = [tr EXCEPT !.len = Len(opt.v)]
         /\ hist' = h
         /\ UNCHANGED <<cur, mtimecmp, last>>

(* schedule() up to the loop: try_lock, then take() *)
Schedule(tr, opt, m, h) ==
    IF ~try_lock(m).ok
    THEN Return(tr, NoChange, opt, try_lock(m).m, pl, TRUE, h)
    ELSE IF ~opt.some
    THEN Return(tr, Placeholder, opt, unlock(try_lock(m).m), pl, FALSE, h)
    ELSE /\ hart' = "sched"
         /\ PROCESS_LIST' = None
         /\ PROCESS_LIST_MUTEX' = try_lock(m).m
         /\ pl' = opt.v
         /\ trap' = [tr EXCEPT !.len = Len(opt.v)]
         /\ hist' = h
         /\ UNCHANGED <<cur, mtimecmp, last>>

(* a loop that stops at any sleeper, whatever its wake time *)
Qualifies_any_sleeper(p, now) ==
    p.state \in {"Running", "Sleeping"}

(* a loop that also stops at a process waiting for I/O *)
Qualifies_any_waiter(p, now) ==
    \/ p.state \in {"Running", "Waiting"}
    \/ p.state = "Sleeping" /\ p.sleep_until <= now

(* a loop that stops at Running processes only *)
Qualifies_running_only(p, now) ==
    p.state = "Running"

(* the entry the loop stops at, if the front qualifies *)
Qualifies(p, now) ==
    \/ p.state = "Running"
    \/ p.state = "Sleeping" /\ p.sleep_until <= now

(* 'procfindloop run to its break: rotate, test the front, at most n more  *)
(* times.  found is FALSE when no entry qualifies, where the loop of the   *)
(* code does not end.                                                      *)
RECURSIVE procfindloop(_, _, _)
procfindloop(q, now, n) ==
    LET r == rotate_left(q)
    IN  IF Qualifies(r[1], now)
        THEN [found |-> TRUE, q |-> [r EXCEPT ![1].state = "Running"]]
        ELSE IF n <= 1 THEN [found |-> FALSE, q |-> r]
        ELSE procfindloop(r, now, n - 1)

(* schedule() as one call at time now, entered with the mutex in state m.  *)
(* returns is FALSE when the call never comes back, id is the entry whose  *)
(* frame it returns (0 for NoChange and the placeholder).                  *)
schedule(opt, m, now) ==
    IF ~try_lock(m).ok
    THEN [returns |-> TRUE, ret |-> NoChange, id |-> 0, opt |-> opt]
    ELSE IF ~opt.some
    THEN [returns |-> TRUE, ret |-> Placeholder, id |-> 0, opt |-> opt]
    ELSE IF opt.v = <<>>
    THEN [returns |-> FALSE, ret |-> NoChange, id |-> 0, opt |-> opt]
    ELSE LET f == procfindloop(opt.v, now, Len(opt.v))
         IN  IF f.found
             THEN [returns |-> TRUE, ret |-> f.q[1].frame, id |-> f.q[1].id,
                   opt |-> Some(f.q)]
             ELSE [returns |-> FALSE, ret |-> NoChange, id |-> 0, opt |-> opt]

(* one iteration of 'procfindloop, and the return when it breaks *)
SchedLoop ==
    /\ hart = "sched"
    /\ UNCHANGED <<NEXT_PID, mtime, ring, ub, others, freed, created>>
    /\ IF pl = <<>>
       THEN \* rotate_left(1) on an empty deque panics
            /\ hart' = "panic"
            /\ UNCHANGED <<PROCESS_LIST, PROCESS_LIST_MUTEX, pl, cur, trap,
                           mtimecmp, hist, last>>
       ELSE LET r == rotate_left(pl)
                tr == [trap EXCEPT !.scanned =
                          IF @ < MaxScan THEN @ + 1 ELSE MaxScan]
            IN  IF Qualifies(r[1], mtime)
                THEN LET woke == r[1].state = "Sleeping"
                         q == Count([r EXCEPT ![1].state = "Running"])
                     IN  Return(tr, r[1].frame, Some(q),
                                unlock(PROCESS_LIST_MUTEX), <<>>, FALSE,
                                IF woke THEN <<>>
                                ELSE LastN(Append(hist, r[1].frame), Len(q)))
                ELSE /\ pl' = r
                     /\ trap' = tr
                     /\ UNCHANGED <<PROCESS_LIST, PROCESS_LIST_MUTEX, hart, cur,
                                    mtimecmp, hist, last>>

-----------------------------------------------------------------------------
(* The process on the hart *)

Running(q) == {i \in 1..Len(q) : q[i].frame = cur}
HasCur == hart = "proc" /\ Running(Table) # {}
CurIdx == Min(Running(Table))
Cur == Table[CurIdx]

EveryProc == AllProcs(Table)
UsedFrames == {p.frame : p \in EveryProc}
NextId == Len(created) + 1

(* the table with the running process's record replaced *)
WithCur(p) == [Table EXCEPT ![CurIdx] = p]

(* a process-context step that changes only the running process's record *)
Step(p) ==
    /\ IF PROCESS_LIST.some
       THEN PROCESS_LIST' = Some(WithCur(p)) /\ pl' = pl
       ELSE pl' = WithCur(p) /\ PROCESS_LIST' = PROCESS_LIST
    /\ UNCHANGED <<hart, cur, trap, mtime, mtimecmp, ring, ub, others, freed, hist>>

Entered(cause) ==
    [cause |-> cause, pid |-> Cur.pid, id |-> Cur.id, scanned |-> 0, len |-> 0,
     before |-> Table]

-----------------------------------------------------------------------------
(* Hardware *)

(* the machine timer advances *)
Tick ==
    /\ hart \in {"proc", "sched"}
    /\ mtime < MaxTime
    /\ mtime' = mtime + TickStep
    /\ UNCHANGED <<PROCESS_LIST, PROCESS_LIST_MUTEX, NEXT_PID, pl, hart, cur,
                   trap, mtimecmp, ring, ub, others, freed, created, hist, last>>

-----------------------------------------------------------------------------
(* main.rs kinit: rust_switch_to_user(sched::schedule()) *)
Boot ==
    /\ hart = "boot"
    /\ Schedule([NoTrap EXCEPT !.cause = "boot", !.before = Table], PROCESS_LIST,
                PROCESS_LIST_MUTEX, hist)
    /\ UNCHANGED <<NEXT_PID, mtime, ring, ub, others, freed, created>>

-----------------------------------------------------------------------------
(* trap.rs m_trap *)

(* cause 7, asynchronous: the machine timer *)
TimerTrap ==
    /\ HasCur
    /\ mtime >= mtimecmp
    /\ Schedule(Entered("timer"), PROCESS_LIST, PROCESS_LIST_MUTEX, hist)
    /\ UNCHANGED <<NEXT_PID, mtime, ring, ub, others, freed, created>>

(* causes 2, 7, 12, 13, 15, synchronous: raised by a user-mode process *)
FaultTrap(cause) ==
    /\ HasCur
    /\ Cur.prog = "user"
    /\ Schedule(Entered("fault"), delete_process(PROCESS_LIST, Cur.pid),
                PROCESS_LIST_MUTEX, <<>>)
    /\ freed' = freed \o Teardown(PROCESS_LIST,
                                  delete_process(PROCESS_LIST, Cur.pid))
    /\ UNCHANGED <<NEXT_PID, mtime, ring, ub, others, created>>

-----------------------------------------------------------------------------
(* syscall.rs do_syscall, each followed by the tail of m_trap's ecall arm *)

(* 93 | 94: exit, also reached by a kernel process returning into         *)
(* ra_delete_proc                                                          *)
SysExit ==
    /\ HasCur
    /\ Cur.prog = "user" \/ Cur.pc = "ret"
    /\ Schedule(Entered("exit"), delete_process(PROCESS_LIST, Cur.pid),
                PROCESS_LIST_MUTEX, <<>>)
    /\ freed' = freed \o Teardown(PROCESS_LIST,
                                  delete_process(PROCESS_LIST, Cur.pid))
    /\ UNCHANGED <<NEXT_PID, mtime, ring, ub, others, created>>

(* 1: yield *)
SysYield ==
    /\ HasCur
    /\ Cur.prog = "user"
    /\ Schedule(Entered("yield"), PROCESS_LIST, PROCESS_LIST_MUTEX, hist)
    /\ UNCHANGED <<NEXT_PID, mtime, ring, ub, others, freed, created>>

(* 10: sleep; Mutex::sleep_lock issues it while the mutex is taken *)
SysSleep(duration) ==
    /\ HasCur
    /\ \/ Cur.prog = "user"
       \/ /\ Cur.prog = "exec_func" /\ Cur.pc = "lock"
          /\ ~try_lock(PROCESS_LIST_MUTEX).ok
          /\ duration = DEFAULT_LOCK_SLEEP
    /\ Schedule(Entered("sleep"),
                set_sleeping(PROCESS_LIST, Cur.pid, mtime, duration).opt,
                PROCESS_LIST_MUTEX, <<>>)
    /\ UNCHANGED <<NEXT_PID, mtime, ring, ub, others, freed, created>>

(* 11: execv.  found: the path opens; img: the header of the file there *)
SysExec(found, img) ==
    /\ HasCur
    /\ Cur.prog = "user"
    /\ NEXT_PID < MaxPid
    /\ IF ~found
       THEN /\ Schedule(Entered("exec_nofile"), PROCESS_LIST,
                        PROCESS_LIST_MUTEX, hist)
            /\ UNCHANGED <<NEXT_PID, freed, created>>
       ELSE LET a == add_kernel_process_args(PROCESS_LIST, PROCESS_LIST_MUTEX,
                        NEXT_PID, UsedFrames, NextId, "exec_func", img)
                tagged == IF a.pid = 0 THEN a.opt
                          ELSE Some([a.opt.v EXCEPT ![Len(a.opt.v)].parent = Cur.id])
            IN  IF a.spin
                THEN /\ hart' = "spin"
                     /\ PROCESS_LIST_MUTEX' = a.m
                     /\ UNCHANGED <<PROCESS_LIST, NEXT_PID, pl, cur, trap,
                                    mtimecmp, freed, created, hist, last>>
                ELSE /\ Schedule(Entered("exec"),
                                 delete_process(tagged, Cur.pid), a.m, <<>>)
                     /\ freed' = freed \o Teardown(tagged,
                                          delete_process(tagged, Cur.pid))
                     /\ NEXT_PID' = a.next_pid
                     /\ created' = IF a.pid # 0 THEN Append(created, a.pid)
                                   ELSE created
    /\ UNCHANGED <<mtime, ring, ub, others>>

(* 180: block read.  accepted: block_op queued the request *)
SysBlockRead(accepted) ==
    /\ HasCur
    /\ Cur.prog = "user"
    /\ Schedule(Entered("block"), set_waiting(PROCESS_LIST, Cur.pid).opt,
                PROCESS_LIST_MUTEX, <<>>)
    /\ ring' = IF accepted THEN Append(ring, Cur.pid) ELSE ring
    /\ UNCHANGED <<NEXT_PID, mtime, ub, others, freed, created>>

-----------------------------------------------------------------------------
(* test.rs test_elf, the kernel process kinit spawns, in process context *)

(* up to the point where my_proc is built: a pid is taken before the       *)
(* header is checked                                                       *)
test_elf_build(read_ok, img, next_pid, used, id) ==
    IF ~read_ok
    THEN [next_pid |-> next_pid, proc |-> <<>>]
    ELSE [next_pid |-> (next_pid + 1) % U16,
          proc |-> IF load(img) = "Ok"
                   THEN <<Process(id, (next_pid + 1) % U16, zalloc(used),
                                  "user", NoImage)>>
                   ELSE <<>>]

TestElfBuild(read_ok, img) ==
    /\ HasCur
    /\ Cur.prog = "test_elf" /\ Cur.pc = "start"
    /\ NEXT_PID < MaxPid
    /\ LET b == test_elf_build(read_ok, img, NEXT_PID, UsedFrames, NextId)
       IN  /\ Step([Cur EXCEPT !.mine = b.proc,
                               !.pc = IF b.proc = <<>> THEN "ret" ELSE "take"])
           /\ NEXT_PID' = b.next_pid
           /\ created' = IF b.proc = <<>> THEN created
                         ELSE Append(created, b.proc[1].pid)
           /\ last' = [NoLast EXCEPT !.op = "test_elf_build", !.pid = Cur.pid,
                                     !.id = Cur.id]
    /\ UNCHANGED PROCESS_LIST_MUTEX

(* PROCESS_LIST.take(), without the mutex *)
TestElfTake ==
    /\ HasCur
    /\ Cur.prog = "test_elf" /\ Cur.pc = "take"
    /\ IF PROCESS_LIST.some
       THEN /\ pl' = WithCur([Cur EXCEPT !.pc = "push"])
            /\ PROCESS_LIST' = None
            /\ freed' = freed
       ELSE /\ pl' = WithCur([Cur EXCEPT !.pc = "ret", !.mine = <<>>])
            /\ PROCESS_LIST' = PROCESS_LIST
            /\ freed' = freed \o drop(Cur.mine[1])
    /\ UNCHANGED <<PROCESS_LIST_MUTEX, NEXT_PID, hart, cur, trap, mtime,
                   mtimecmp, ring, ub, others, created, hist, last>>

(* pl.push_back(my_proc); PROCESS_LIST.replace(pl) *)
TestElfPush ==
    /\ HasCur
    /\ Cur.prog = "test_elf" /\ Cur.pc = "push"
    /\ PROCESS_LIST' = Some(ResetWaited(
           WithCur([Cur EXCEPT !.pc = "ret", !.mine = <<>>]) \o Cur.mine))
    /\ pl' = <<>>
    /\ hist' = <<>>
    /\ last' = [NoLast EXCEPT !.op = "test_elf_push", !.pid = Cur.pid,
                              !.id = Cur.id]
    /\ UNCHANGED <<PROCESS_LIST_MUTEX, NEXT_PID, hart, cur, trap, mtime,
                   mtimecmp, ring, ub, others, freed, created>>

-----------------------------------------------------------------------------
(* syscall.rs exec_func, the kernel process execv spawns, in process       *)
(* context                                                                 *)

(* elf::File::load_proc(&buffer) and the is_err() branch *)
ExecLoad ==
    /\ HasCur
    /\ Cur.prog = "exec_func" /\ Cur.pc = "start"
    /\ NEXT_PID < MaxPid
    /\ LET r == load_proc(Cur.arg, NEXT_PID, UsedFrames, NextId)
       IN  /\ Step([Cur EXCEPT !.mine = r.proc,
                               !.pc = IF r.err = "Ok" THEN "lock" ELSE "ret"])
           /\ NEXT_PID' = r.next_pid
           /\ created' = IF r.proc = <<>> THEN created
                         ELSE Append(created, r.proc[1].pid)
           /\ last' = [NoLast EXCEPT
                          !.op = IF r.err = "Ok" THEN "load_ok" ELSE "load_err",
                          !.pid = Cur.pid, !.id = Cur.id]
    /\ UNCHANGED PROCESS_LIST_MUTEX

(* PROCESS_LIST_MUTEX.sleep_lock(), the try that succeeds *)
ExecLock ==
    /\ HasCur
    /\ Cur.prog = "exec_func" /\ Cur.pc = "lock"
    /\ try_lock(PROCESS_LIST_MUTEX).ok
    /\ PROCESS_LIST_MUTEX' = try_lock(PROCESS_LIST_MUTEX).m
    /\ Step([Cur EXCEPT !.pc = "take"])
    /\ UNCHANGED <<NEXT_PID, created, last>>

(* PROCESS_LIST.take() *)
ExecTake ==
    /\ HasCur
    /\ Cur.prog = "exec_func" /\ Cur.pc = "take"
    /\ IF PROCESS_LIST.some
       THEN /\ pl' = WithCur([Cur EXCEPT !.pc = "push"])
            /\ PROCESS_LIST' = None
            /\ freed' = freed
       ELSE /\ pl' = WithCur([Cur EXCEPT !.pc = "unlock", !.mine = <<>>])
            /\ PROCESS_LIST' = PROCESS_LIST
            /\ freed' = freed \o drop(Cur.mine[1])
    /\ UNCHANGED <<PROCESS_LIST_MUTEX, NEXT_PID, hart, cur, trap, mtime,
                   mtimecmp, ring, ub, others, created, hist, last>>

(* proc_list.push_back(process); PROCESS_LIST.replace(proc_list) *)
ExecPush ==
    /\ HasCur
    /\ Cur.prog = "exec_func" /\ Cur.pc = "push"
    /\ PROCESS_LIST' = Some(ResetWaited(
           WithCur([Cur EXCEPT !.pc = "unlock", !.mine = <<>>]) \o Cur.mine))
    /\ pl' = <<>>
    /\ hist' = <<>>
    /\ last' = [NoLast EXCEPT !.op = "exec_push", !.pid = Cur.pid, !.id = Cur.id]
    /\ UNCHANGED <<PROCESS_LIST_MUTEX, NEXT_PID, hart, cur, trap, mtime,
                   mtimecmp, ring, ub, others, freed, created>>

(* PROCESS_LIST_MUTEX.unlock() *)
ExecUnlock ==
    /\ HasCur
    /\ Cur.prog = "exec_func" /\ Cur.pc = "unlock"
    /\ PROCESS_LIST_MUTEX' = unlock(PROCESS_LIST_MUTEX)
    /\ Step([Cur EXCEPT !.pc = "ret"])
    /\ UNCHANGED <<NEXT_PID, created, last>>

-----------------------------------------------------------------------------
(* block.rs pending, reached from m_trap's external-interrupt arm: the     *)
(* device has completed the oldest request.                                *)

(* what pending does with the request's watcher: set_running, then a      *)
(* write to regs[10] through the pointer get_by_pid gave                   *)
pending(opt, watcher) ==
    IF watcher > 0
    THEN [opt |-> set_running(opt, watcher).opt,
          found |-> set_running(opt, watcher).ret,
          null |-> get_by_pid(set_running(opt, watcher).opt, watcher) = 0]
    ELSE [opt |-> opt, found |-> FALSE, null |-> FALSE]

(* the hart after pending: a store through a null pointer is undefined,    *)
(* the kernel either goes on or traps inside the trap handler              *)
AfterPending(r, h) ==
    /\ PROCESS_LIST' = r.opt
    /\ ub' = (ub \/ r.null)
    /\ UNCHANGED others
    /\ freed' = freed
    /\ hist' = IF r.opt = PROCESS_LIST THEN hist ELSE <<>>
    /\ hart' \in (IF r.null THEN {h, "panic"} ELSE {h})

(* plic.rs: the interrupt of the slot probe found the block device in *)
BlockIrq == 8

(* plic::next that takes the hardwired 0 for an interrupt as well *)
plic_next_any(claim_no) == Some(claim_no)

(* plic::next *)
plic_next(claim_no) == IF claim_no = 0 THEN None ELSE Some(claim_no)

(* the arm of handle_interrupt's match, and for 1..=8 the arm of           *)
(* virtio::handle_interrupt's match on the device in slot interrupt - 1    *)
plic_handler(interrupt) ==
    IF interrupt \in 1..8
    THEN IF interrupt = BlockIrq THEN "block" ELSE "spurious"
    ELSE IF interrupt = 10 THEN "uart" ELSE "unknown"

(* plic::handle_interrupt: the handler that runs and what is written to    *)
(* the completion register; returns tells that the handler came back       *)
plic_handle_interrupt(claim_no, returns) ==
    LET n == plic_next(claim_no)
    IN  IF n.some
        THEN [handler |-> plic_handler(n.v),
              completed |-> IF returns THEN <<n.v>> ELSE <<>>]
        ELSE [handler |-> "none", completed |-> <<>>]

(* m_trap's arm 11 when the block device has completed the oldest request *)
BlockComplete ==
    /\ HasCur
    /\ ring # <<>>
    /\ LET r == pending(PROCESS_LIST, Head(ring))
       IN  /\ AfterPending(r, hart)
           /\ last' = [NoLast EXCEPT !.op = "complete", !.pid = Head(ring),
                                     !.ret = IF r.found THEN 1 ELSE 0,
                                     !.null = r.null,
                                     !.irq = TRUE, !.arg = BlockIrq,
                                     !.handler =
                                        plic_handle_interrupt(BlockIrq, TRUE).handler,
                                     !.completed =
                                        plic_handle_interrupt(BlockIrq,
                                                              hart' # "panic").completed]
    /\ ring' = Tail(ring)
    /\ UNCHANGED <<PROCESS_LIST_MUTEX, NEXT_PID, pl, cur, trap, mtime,
                   mtimecmp, created>>

(* m_trap's arm 11 when no block request has completed: the handler, if   *)
(* any, finds nothing to do on the process table                           *)
ExternalTrap(claim_no) ==
    /\ HasCur
    /\ ~(claim_no = BlockIrq /\ ring # <<>>)
    /\ LET r == plic_handle_interrupt(claim_no, TRUE)
       IN  last' = [NoLast EXCEPT !.op = "external", !.irq = TRUE, !.arg = claim_no,
                                  !.handler = r.handler, !.completed = r.completed]
    /\ UNCHANGED <<PROCESS_LIST, PROCESS_LIST_MUTEX, NEXT_PID, pl, hart, cur, trap,
                   mtime, mtimecmp, ring, ub, others, freed, created, hist>>

-----------------------------------------------------------------------------
(* The kernel after kinit, about to call schedule() for the first time *)
Init ==
    /\ PROCESS_LIST = kinit.opt
    /\ PROCESS_LIST_MUTEX = kinit.m
    /\ NEXT_PID = kinit.next_pid
    /\ pl = <<>>
    /\ hart = "boot"
    /\ cur = 0
    /\ trap = NoTrap
    /\ mtime = 0
    /\ mtimecmp = schedule_next_context_switch(0, 0, 1)
    /\ ring = <<>>
    /\ ub = FALSE
    /\ kmem = kmem_init
    /\ kptrs = {}
    /\ pages = NoPages
    /\ freed = <<>>
    /\ created = <<1, 2>>
    /\ hist = <<>>
    /\ last = NoLast

Next ==
    \/ Boot
    \/ Tick
    \/ TimerTrap
    \/ SchedLoop
    \/ \E cause \in FatalCauses : FaultTrap(cause)
    \/ SysExit
    \/ SysYield
    \/ \E d \in Durations : SysSleep(d)
    \/ \E found \in BOOLEAN, img \in Images : SysExec(found, img)
    \/ \E accepted \in BOOLEAN : SysBlockRead(accepted)
    \/ \E read_ok \in BOOLEAN, img \in Images : TestElfBuild(read_ok, img)
    \/ TestElfTake
    \/ TestElfPush
    \/ ExecLoad
    \/ ExecLock
    \/ ExecTake
    \/ ExecPush
    \/ ExecUnlock
    \/ BlockComplete

Spec == Init /\ [][Next]_vars

(* The kernel with every source of the interrupt controller: what the      *)
(* claim register is read as is 0 for nothing to claim, 1..8 for VIRTIO,   *)
(* 10 for UART0, or an id the kernel has no handler for                    *)
IrqSpec ==
    Init /\ [][Next \/ \E claim_no \in {0, 1, 8, 10, 11} : ExternalTrap(claim_no)]_vars

(* The clock of the model stops at MaxTime, the hardware's does not: past  *)
(* the horizon the timer interrupt keeps arriving, and get_mtime() reads   *)
(* MaxTime.                                                                *)
TimerTrapLate ==
    /\ HasCur
    /\ mtime = MaxTime
    /\ mtime < mtimecmp
    /\ Schedule(Entered("timer"), PROCESS_LIST, PROCESS_LIST_MUTEX, hist)
    /\ UNCHANGED <<NEXT_PID, mtime, ring, ub, others, freed, created>>

LiveNext ==
    \/ Next
    \/ TimerTrapLate

(* The kernel with a clock that keeps advancing, timer interrupts that     *)
(* keep being taken and a trap handler that keeps executing.               *)
LiveSpec ==
    /\ Init
    /\ [][LiveNext]_vars
    /\ WF_vars(Tick)
    /\ WF_vars(TimerTrap)
    /\ WF_vars(TimerTrapLate)
    /\ WF_vars(SchedLoop)

TypeOK ==
    /\ PROCESS_LIST_MUTEX \in {"Unlocked", "Locked"}
    /\ hart \in {"boot", "proc", "sched", "wild", "panic", "spin", "api"}
    /\ PROCESS_LIST.some \in BOOLEAN
    /\ NEXT_PID \in 0..MaxPid
    /\ mtime \in 0..MaxTime

-----------------------------------------------------------------------------
(* The entry points of the process table and of the block driver, called   *)
(* one at a time in any order by the rest of the kernel (hart = "api").    *)
(* While a kernel process holds the mutex, only its unlock and the calls   *)
(* that go for the mutex themselves are followed.                          *)

ApiInit ==
    /\ PROCESS_LIST = kinit.opt
    /\ PROCESS_LIST_MUTEX = kinit.m
    /\ NEXT_PID = kinit.next_pid
    /\ pl = <<>>
    /\ hart = "api"
    /\ cur = 0
    /\ trap = NoTrap
    /\ mtime = 0
    /\ mtimecmp = schedule_next_context_switch(0, 0, 1)
    /\ ring = <<>>
    /\ ub = FALSE
    /\ kmem = kmem_init
    /\ kptrs = {}
    /\ pages = NoPages
    /\ freed = <<>>
    /\ created = <<1, 2>>
    /\ hist = <<>>
    /\ last = NoLast

(* process.rs add_kernel_process_args(func, args) *)
ApiAddKernelProcessArgs ==
    /\ hart = "api"
    /\ NEXT_PID < MaxApiPid
    /\ LET a == add_kernel_process_args(PROCESS_LIST, PROCESS_LIST_MUTEX,
                    NEXT_PID, UsedFrames, NextId, "exec_func", GoodImage)
       IN  /\ PROCESS_LIST' = a.opt
           /\ PROCESS_LIST_MUTEX' = a.m
           /\ NEXT_PID' = a.next_pid
           /\ hart' = IF a.spin THEN "spin" ELSE hart
           /\ created' = IF a.pid = 0 THEN created ELSE Append(created, a.pid)
           /\ last' = last
    /\ hist' = <<>>
    /\ UNCHANGED <<pl, cur, trap, mtime, mtimecmp, ring, ub, others, freed>>

(* syscall 180 issued by the process pid: set_waiting(pid), then           *)
(* block_op(.., watcher = pid) queues the request                          *)
ApiBlockRead(pid) ==
    /\ hart = "api"
    /\ PROCESS_LIST_MUTEX = "Unlocked"
    /\ Len(ring) < MaxRing
    /\ \E p \in Range(Table) : p.pid = pid /\ p.state = "Running"
    /\ PROCESS_LIST' = set_waiting(PROCESS_LIST, pid).opt
    /\ ring' = Append(ring, pid)
    /\ hist' = <<>>
    /\ UNCHANGED <<PROCESS_LIST_MUTEX, NEXT_PID, pl, hart, cur, trap, mtime,
                   mtimecmp, ub, others, freed, created, last>>

(* process.rs delete_process(pid) *)
ApiDeleteProcess(pid) ==
    /\ hart = "api"
    /\ PROCESS_LIST_MUTEX = "Unlocked"
    /\ PROCESS_LIST' = delete_process(PROCESS_LIST, pid)
    /\ freed' = freed \o Teardown(PROCESS_LIST, delete_process(PROCESS_LIST, pid))
    /\ hist' = <<>>
    /\ last' = [NoLast EXCEPT !.op = "delete",
                              !.ret = IF get_by_pid(PROCESS_LIST, pid) = 0
                                      THEN 0 ELSE 1]
    /\ UNCHANGED <<PROCESS_LIST_MUTEX, NEXT_PID, pl, hart, cur, trap, mtime,
                   mtimecmp, ring, ub, others, created>>

(* process.rs set_running(pid); last.id keeps the entry the call found     *)
(* Running already, if it did                                              *)
ApiSetRunning(pid) ==
    /\ hart = "api"
    /\ PROCESS_LIST_MUTEX = "Unlocked"
    /\ PROCESS_LIST' = set_running(PROCESS_LIST, pid).opt
    /\ hist' = <<>>
    /\ last' = [NoLast EXCEPT !.op = "set_running",
                              !.ret = IF set_running(PROCESS_LIST, pid).ret
                                      THEN 1 ELSE 0,
                              !.id = LET i == get_by_pid(PROCESS_LIST, pid)
                                     IN  IF i > 0 /\ Table[i].state = "Running"
                                         THEN Table[i].id ELSE 0]
    /\ UNCHANGED <<PROCESS_LIST_MUTEX, NEXT_PID, pl, hart, cur, trap, mtime,
                   mtimecmp, ring, ub, others, freed, created>>

(* process.rs set_waiting(pid) *)
ApiSetWaiting(pid) ==
    /\ hart = "api"
    /\ PROCESS_LIST_MUTEX = "Unlocked"
    /\ PROCESS_LIST' = set_waiting(PROCESS_LIST, pid).opt
    /\ hist' = <<>>
    /\ last' = [NoLast EXCEPT !.op = "set_waiting",
                              !.ret = IF set_waiting(PROCESS_LIST, pid).ret
                                      THEN 1 ELSE 0]
    /\ UNCHANGED <<PROCESS_LIST_MUTEX, NEXT_PID, pl, hart, cur, trap, mtime,
                   mtimecmp, ring, ub, others, freed, created>>

(* process.rs set_sleeping(pid, duration) *)
ApiSetSleeping(pid, duration) ==
    /\ hart = "api"
    /\ PROCESS_LIST_MUTEX = "Unlocked"
    /\ PROCESS_LIST' = set_sleeping(PROCESS_LIST, pid, mtime, duration).opt
    /\ hist' = <<>>
    /\ last' = [NoLast EXCEPT !.op = "set_sleeping",
                              !.ret = IF set_sleeping(PROCESS_LIST, pid, mtime, duration).ret
                                      THEN 1 ELSE 0]
    /\ UNCHANGED <<PROCESS_LIST_MUTEX, NEXT_PID, pl, hart, cur, trap, mtime,
                   mtimecmp, ring, ub, others, freed, created>>

(* process.rs get_by_pid(pid): take(), search, replace() - the table is    *)
(* put back as it was taken                                                *)
ApiGetByPid(pid) ==
    /\ hart = "api"
    /\ PROCESS_LIST_MUTEX = "Unlocked"
    /\ PROCESS_LIST' = IF get_by_pid(PROCESS_LIST, pid) = 0
                       THEN PROCESS_LIST ELSE Some(PROCESS_LIST.v)
    /\ last' = [NoLast EXCEPT !.op = "get_by_pid",
                              !.ret = IF get_by_pid(PROCESS_LIST, pid) = 0
                                      THEN 0 ELSE 1]
    /\ UNCHANGED <<PROCESS_LIST_MUTEX, NEXT_PID, pl, hart, cur, trap, mtime,
                   mtimecmp, ring, ub, others, freed, created, hist>>

(* schedule(), for the calls that return *)
ApiSchedule ==
    /\ hart = "api"
    /\ LET s == schedule(PROCESS_LIST, PROCESS_LIST_MUTEX, mtime)
       IN  /\ s.returns
           /\ PROCESS_LIST' = s.opt
           /\ last' = [NoLast EXCEPT !.op = "schedule", !.ret = s.ret,
                                     !.id = s.id]
    /\ UNCHANGED <<PROCESS_LIST_MUTEX, NEXT_PID, pl, hart, cur, trap, mtime,
                   mtimecmp, ring, ub, others, freed, created, hist>>

(* a kernel process takes the mutex, as exec_func does before it pushes *)
ApiSleepLock ==
    /\ hart = "api"
    /\ try_lock(PROCESS_LIST_MUTEX).ok
    /\ PROCESS_LIST_MUTEX' = try_lock(PROCESS_LIST_MUTEX).m
    /\ UNCHANGED <<PROCESS_LIST, NEXT_PID, pl, hart, cur, trap, mtime,
                   mtimecmp, ring, ub, others, freed, created, hist, last>>

(* and releases it *)
ApiUnlock ==
    /\ hart = "api"
    /\ PROCESS_LIST_MUTEX = "Locked"
    /\ PROCESS_LIST_MUTEX' = unlock(PROCESS_LIST_MUTEX)
    /\ UNCHANGED <<PROCESS_LIST, NEXT_PID, pl, hart, cur, trap, mtime,
                   mtimecmp, ring, ub, others, freed, created, hist, last>>

(* do_syscall's arm 11 in the trap of the process pid, the path opening:   *)
(* add_kernel_process_args(exec_func, ..), then delete_process(pid)        *)
ApiSysExec(pid) ==
    /\ hart = "api"
    /\ NEXT_PID < MaxApiPid
    /\ \E p \in Range(Table) : p.pid = pid /\ p.state = "Running"
    /\ LET a == add_kernel_process_args(PROCESS_LIST, PROCESS_LIST_MUTEX,
                    NEXT_PID, UsedFrames, NextId, "exec_func", GoodImage)
       IN  IF a.spin
           THEN /\ hart' = "spin"
                /\ PROCESS_LIST_MUTEX' = a.m
                /\ UNCHANGED <<PROCESS_LIST, NEXT_PID, freed, created, hist, last>>
           ELSE /\ hart' = hart
                /\ PROCESS_LIST' = delete_process(a.opt, pid)
                /\ PROCESS_LIST_MUTEX' = a.m
                /\ NEXT_PID' = a.next_pid
                /\ freed' = freed \o Teardown(a.opt, delete_process(a.opt, pid))
                /\ created' = IF a.pid = 0 THEN created ELSE Append(created, a.pid)
                /\ hist' = <<>>
                /\ last' = last
    /\ UNCHANGED <<pl, cur, trap, mtime, mtimecmp, ring, ub, others>>

(* block.rs pending(bd): the device has completed the oldest request *)
ApiPending ==
    /\ hart = "api"
    /\ PROCESS_LIST_MUTEX = "Unlocked"
    /\ ring # <<>>
    /\ LET r == pending(PROCESS_LIST, Head(ring))
       IN  /\ AfterPending(r, hart)
           /\ last' = [NoLast EXCEPT !.op = "complete", !.pid = Head(ring),
                                     !.ret = IF r.found THEN 1 ELSE 0,
                                     !.null = r.null]
    /\ ring' = Tail(ring)
    /\ UNCHANGED <<PROCESS_LIST_MUTEX, NEXT_PID, pl, cur, trap, mtime,
                   mtimecmp, created>>

ApiNext ==
    \/ ApiAddKernelProcessArgs
    \/ \E pid \in 1..MaxApiPid : ApiBlockRead(pid)
    \/ \E pid \in 1..MaxApiPid : ApiDeleteProcess(pid)
    \/ ApiPending
    \/ ApiSleepLock
    \/ ApiUnlock
    \/ \E pid \in 1..MaxApiPid : ApiSysExec(pid)

ApiSpec == ApiInit /\ [][ApiNext]_vars

(* The process table's own entry points, called in any order with any     *)
(* pid.  The clock stands still here, so the sleeps are sleeps of          *)
(* duration 0, due at the next schedule().                                 *)
TableNext ==
    \/ NEXT_PID < MaxTablePid /\ ApiAddKernelProcessArgs
    \/ \E pid \in 1..MaxTablePid : ApiDeleteProcess(pid)
    \/ \E pid \in 1..MaxTablePid : ApiSetRunning(pid)
    \/ \E pid \in 1..MaxTablePid : ApiSetWaiting(pid)
    \/ \E pid \in 1..MaxTablePid : ApiSetSleeping(pid, 0)
    \/ \E pid \in 1..MaxTablePid : ApiGetByPid(pid)
    \/ ApiSchedule

TableSpec == ApiInit /\ [][TableNext]_vars

-----------------------------------------------------------------------------
(* Steps the properties below speak about *)

(* a trap handler (or kinit) calls schedule() *)
TrapEntry ==
    \/ Boot
    \/ TimerTrap
    \/ \E cause \in FatalCauses : FaultTrap(cause)
    \/ SysExit
    \/ SysYield
    \/ \E d \in Durations : SysSleep(d)
    \/ \E found \in BOOLEAN, img \in Images : SysExec(found, img)
    \/ \E accepted \in BOOLEAN : SysBlockRead(accepted)

(* schedule() returns to its caller in this step; last' describes the call *)
ScheduleReturns ==
    /\ TrapEntry \/ SchedLoop
    /\ hart' \notin {"sched", "panic", "spin"}

-----------------------------------------------------------------------------
(* C1: a schedule() called from the timer trap while PROCESS_LIST_MUTEX is *)
(* held by another context returns the no-change sentinel 0 in that same   *)
(* step (it never enters the search loop or waits), and the process table  *)
(* - membership, order, every state and wake time - is exactly as it was.  *)
C1_LockedScheduleReturnsNoChange ==
    [][(TimerTrap /\ PROCESS_LIST_MUTEX = "Locked") =>
          /\ last'.op = "timer"
          /\ last'.locked
          /\ last'.ret = NoChange
          /\ hart' = "proc"
          /\ PROCESS_LIST' = PROCESS_LIST
          /\ pl' = pl
          /\ PROCESS_LIST_MUTEX' = "Locked"]_vars

(* a timer trap has found the mutex held by exec_func and returned 0 *)
C1_Witness ==
    /\ last.op = "timer"
    /\ last.locked
    /\ last.ret = NoChange
    /\ PROCESS_LIST_MUTEX = "Locked"
    /\ hart = "proc"
    /\ Cur.prog = "exec_func"

(* C2: every schedule() call that acquires the lock ends after examining   *)
(* at most one table length of entries, with the lock free, and returns    *)
(* either the frame of the qualifying entry it stopped at or, when no      *)
(* entry qualifies, the no-change sentinel.                                *)
C2_AcquiringScheduleBounded ==
    [][(ScheduleReturns /\ ~last'.locked) =>
          /\ last'.scanned <= last'.len
          /\ PROCESS_LIST_MUTEX' = "Unlocked"
          /\ \/ /\ last'.ret = NoChange
                /\ \A p \in Range(Table') : ~Qualifies(p, mtime)
             \/ /\ Table' # <<>>
                /\ last'.ret = Table'[1].frame
                /\ Table'[1].state = "Running"]_vars

(* C3: pids strictly increase in creation order (so none is ever given     *)
(* twice), and no two entries of the process table have the same pid.      *)
C3_PidsNeverReused ==
    /\ \A i, j \in 1..Len(created) : i < j => created[i] < created[j]
    /\ \A i, j \in 1..Len(Table) : i # j => Table[i].pid # Table[j].pid

(* C4: when the k processes of the table are all Running and the last k    *)
(* lock-acquiring schedule() calls happened with no table change between   *)
(* them, those k calls returned the frame of each process exactly once.    *)
C4_RoundRobinVisitsEachOnce ==
    (/\ PROCESS_LIST.some
     /\ \A p \in Range(Table) : p.state = "Running"
     /\ Len(hist) = Len(Table))
        => /\ {hist[i] : i \in 1..Len(hist)} = Frames(Table)
           /\ \A i, j \in 1..Len(hist) : i # j => hist[i] # hist[j]

(* three Running processes have each been returned once, in three calls *)
C4_Witness ==
    /\ PROCESS_LIST.some
    /\ Len(Table) >= 3
    /\ \A p \in Range(Table) : p.state = "Running"
    /\ Len(hist) = Len(Table)

(* C5: with the membership of an N-entry table unchanged, a process that   *)
(* stays Running is passed over by fewer than N consecutive lock-acquiring *)
(* schedule() calls: it is returned within N of them.                      *)
C5_StarvationBoundedByTableSize ==
    \A p \in Range(Table) : p.waited < Len(Table)

(* a Running process has been passed over N - 1 times while another entry  *)
(* of the table is not Running                                             *)
C5_Witness ==
    /\ Len(Table) >= 3
    /\ \E p \in Range(Table) : p.state = "Running" /\ p.waited = Len(Table) - 1
    /\ \E p \in Range(Table) : p.state # "Running"

(* C6: a fatal fault (illegal instruction, page fault) raised by the user  *)
(* process P is served without a panic and without the search loop going   *)
(* round the table; when the trap returns P is out of the table, every     *)
(* other process is still in it in the state it had, and the hart runs a   *)
(* process that is in the table.                                           *)
C6_FaultIsProcessFatalOnly ==
    [][/\ trap'.cause = "fault" =>
              /\ hart' = "sched"
              /\ trap'.scanned < trap'.len
       /\ (ScheduleReturns /\ last'.op = "fault") =>
              LET pre == IF hart = "sched" THEN trap.before ELSE Table
              IN  /\ hart' = "proc"
                  /\ last'.id \in Ids(Range(pre))
                  /\ last'.id \notin Ids(Range(Table'))
                  /\ \A p \in Range(pre) :
                        p.id # last'.id =>
                            \E q \in Range(Table') :
                                q.id = p.id /\ q.state = p.state
                  /\ cur' \in Frames(Table')]_vars

(* a fault trap has returned into one of the remaining processes *)
C6_Witness ==
    /\ last.op = "fault"
    /\ hart = "proc"
    /\ HasCur
    /\ Len(Table) >= 2
    /\ last.id \notin Ids(Range(Table))

(* C7: a machine-timer trap writes the deadline mtime + CONTEXT_SWITCH_TIME *)
(* and, if its schedule() call returned 0, resumes the interrupted frame   *)
(* with the table untouched; otherwise it switches into the frame that     *)
(* schedule() returned.                                                     *)
C7_TimerTrapSwitchesOrResumes ==
    [][(ScheduleReturns /\ last'.op = "timer") =>
          /\ mtimecmp' = mtime' + CONTEXT_SWITCH_TIME
          /\ IF last'.ret = NoChange
             THEN /\ cur' = cur
                  /\ hart' = "proc"
                  /\ PROCESS_LIST' = PROCESS_LIST
                  /\ pl' = pl
             ELSE cur' = last'.ret]_vars

(* a timer trap has rearmed the timer and switched into another frame *)
C7_Witness ==
    /\ last.op = "timer"
    /\ last.ret # NoChange
    /\ cur = last.ret
    /\ hart = "proc"
    /\ mtimecmp = mtime + CONTEXT_SWITCH_TIME
    /\ Len(Table) >= 2

(* C8: when the image handed to execv fails ELF validation, the process    *)
(* that called execv is still in the process table.                        *)
C8_FailedExecKeepsCaller ==
    last.op = "load_err" =>
        \A k \in Range(Table) :
            k.id = last.id => \E p \in Range(Table) : p.id = k.parent

(* C9: File::load_proc on a header with a wrong magic, machine or type     *)
(* returns the error with nothing built - NEXT_PID, the set of processes   *)
(* and the allocated pages are as before - and exec_func then pushes       *)
(* nothing into the table.                                                 *)
C9_BadHeaderBuildsNothing ==
    [][(ExecLoad /\ load(Cur.arg) # "Ok") =>
          /\ last'.op = "load_err"
          /\ NEXT_PID' = NEXT_PID
          /\ created' = created
          /\ UsedFrames' = UsedFrames
          /\ Ids(EveryProc') = Ids(EveryProc)
          /\ Len(Table') = Len(Table)
          /\ \A k \in Range(Table') :
                k.id = last'.id => k.mine = <<>> /\ k.pc = "ret"]_vars

(* exec_func has been refused a bad image and is about to return *)
C9_Witness ==
    /\ last.op = "load_err"
    /\ HasCur
    /\ Cur.prog = "exec_func"
    /\ load(Cur.arg) # "Ok"
    /\ Cur.pc = "ret"

(* C10: when a block request completes whose watcher pid is not in the    *)
(* process table, set_running reports not-found and pending makes no       *)
(* access through the missing process: no null pointer is used and the     *)
(* kernel goes on.                                                         *)
C10_MissingWatcherTolerated ==
    (last.op = "complete" /\ last.pid > 0 /\ last.ret = 0) =>
        ~last.null /\ ~ub /\ hart # "panic"

(***************************************************************************)
(* C11  set_running, set_waiting, set_sleeping, delete_process and         *)
(* get_by_pid, called with a pid that no table entry has, report not-found *)
(* (false, nothing removed, the null pointer) and leave the table and the  *)
(* allocations as they were.                                               *)
(***************************************************************************)
PidsIn(q) == {q[i].pid : i \in 1..Len(q)}

(* every call the five entry points can be given at this table with pid *)
AbsentPidCalls(pid) ==
    /\ set_running(PROCESS_LIST, pid) = [opt |-> PROCESS_LIST, ret |-> FALSE]
    /\ set_waiting(PROCESS_LIST, pid) = [opt |-> PROCESS_LIST, ret |-> FALSE]
    /\ \A d \in Durations :
          set_sleeping(PROCESS_LIST, pid, mtime, d)
              = [opt |-> PROCESS_LIST, ret |-> FALSE]
    /\ delete_process(PROCESS_LIST, pid) = PROCESS_LIST
    /\ Teardown(PROCESS_LIST, delete_process(PROCESS_LIST, pid)) = <<>>
    /\ get_by_pid(PROCESS_LIST, pid) = 0

C11_AbsentPidIsNotFoundNoOp ==
    \A pid \in 1..MaxTablePid :
        pid \notin PidsIn(Table) => AbsentPidCalls(pid)

C11_Witness ==
    /\ hart = "api"
    /\ last.op \in {"set_running", "set_waiting", "set_sleeping", "delete",
                    "get_by_pid"}
    /\ last.ret = 0
    /\ Len(Table) >= 2
    /\ freed # <<>>

(***************************************************************************)
(* C12  Every operation on the process table (the rotation in schedule,    *)
(* an insertion, delete_process, set_running, set_waiting, set_sleeping,   *)
(* taking the deque out of PROCESS_LIST) runs only while                   *)
(* PROCESS_LIST_MUTEX is held: a step that moves the deque out or in, or   *)
(* changes its membership, order or an entry's state, starts or ends with  *)
(* the mutex locked.                                                       *)
(***************************************************************************)
TableKey(q) ==
    [i \in 1..Len(q) |-> [id |-> q[i].id, pid |-> q[i].pid,
                          state |-> q[i].state,
                          sleep_until |-> q[i].sleep_until]]

TableOperation ==
    \/ PROCESS_LIST'.some # PROCESS_LIST.some
    \/ TableKey(Table') # TableKey(Table)

C12_TableOnlyUnderLock ==
    [][TableOperation =>
          PROCESS_LIST_MUTEX = "Locked" \/ PROCESS_LIST_MUTEX' = "Locked"]_vars

(***************************************************************************)
(* C13  No trap-context code waits on PROCESS_LIST_MUTEX: a system call    *)
(* taken while the mutex is held gives up the table work and completes,    *)
(* the hart never spins for the lock inside the trap.                      *)
(***************************************************************************)
C13_TrapNeverWaitsOnMutex ==
    [][((\E pid \in 1..MaxApiPid : ApiSysExec(pid))
            /\ PROCESS_LIST_MUTEX = "Locked")
          => hart' # "spin"]_vars

(***************************************************************************)
(* C14  A process that has left the table (exit, fatal fault,              *)
(* delete_process) has been torn down exactly once: its stack, its         *)
(* address-space branch pages and root, its register frame and, when it    *)
(* owns any, its program pages were freed in this order, each once; and    *)
(* nothing of a process that is still in the table has been freed.         *)
(***************************************************************************)
FreedOf(id) ==
    LET mine == SelectSeq(freed, LAMBDA f : f.id = id)
    IN  [i \in 1..Len(mine) |-> mine[i].what]

FreedIds == {freed[i].id : i \in 1..Len(freed)}

C14_TeardownOnceInOrder ==
    /\ \A id \in FreedIds :
          FreedOf(id) \in {<<"stack", "branches", "root", "frame">>,
                           <<"stack", "branches", "root", "frame", "program">>}
    /\ FreedIds \cap Ids(Range(Table)) = {}
    /\ \A id \in 1..Len(created) :
          id \notin Ids(EveryProc) => id \in FreedIds

C14_Witness ==
    /\ \E id \in FreedIds : Len(FreedOf(id)) = 5
    /\ \E id \in FreedIds : Len(FreedOf(id)) = 4
    /\ \E p \in Range(Table) : p.prog = "user"

(***************************************************************************)
(* C15  delete_process(pid) with pid in the table removes exactly one      *)
(* entry, the first in table order with that pid, whatever its state; the  *)
(* other entries keep their state and their relative order; and no later   *)
(* schedule() returns the removed process.  (The removed process is told   *)
(* by its identity: the allocator may hand its frame's address to a        *)
(* process created later.)                                                 *)
(***************************************************************************)
RemovesFirst(q, d, pid) ==
    \E i \in 1..Len(q) :
        /\ q[i].pid = pid
        /\ \A j \in 1..(i - 1) : q[j].pid # pid
        /\ Len(d) = Len(q) - 1
        /\ \A j \in 1..Len(d) :
              TableKey(d)[j] = TableKey(q)[IF j < i THEN j ELSE j + 1]

IdOrder(q) == [i \in 1..Len(q) |-> q[i].id]

C16_SleeperWokenOnlyWhenDue ==
    [][(SchedLoop /\ pl # <<>>) =>
          LET front == rotate_left(pl)[1]
          IN  /\ \A p \in Range(pl) :
                    (p.state = "Sleeping" /\ p.sleep_until > mtime) =>
                        /\ \E k \in Range(Table') :
                              /\ k.id = p.id
                              /\ k.state = "Sleeping"
                              /\ k.sleep_until = p.sleep_until
                        /\ hart' # "sched" => last'.ret # p.frame /\ cur' # p.frame
              /\ (front.state = "Sleeping" /\ front.sleep_until <= mtime) =>
                    /\ hart' = "proc"
                    /\ last'.ret = front.frame
                    /\ PROCESS_LIST'.some
                    /\ IdOrder(Table') = IdOrder(rotate_left(pl))
                    /\ Table'[1].id = front.id
                    /\ Table'[1].state = "Running"]_vars

(* schedule() has woken the sleeper it found due at the front and          *)
(* returned its frame                                                      *)
C16_Witness ==
    /\ hart = "proc"
    /\ last.scanned >= 1
    /\ last.ret = cur
    /\ Table[1].frame = cur
    /\ Table[1].state = "Running"
    /\ Table[1].sleep_until > 0
    /\ Table[1].sleep_until <= mtime
    /\ hist = <<>>
    /\ Len(Table) >= 2

(***************************************************************************)
(* C17  schedule() never returns the frame of a Waiting process and never  *)
(* changes a Waiting process's state; a Waiting process becomes Running    *)
(* only in a step that calls set_running with its pid (the block driver's  *)
(* completion handler).                                                    *)
(***************************************************************************)
C17_WaitingLeftToSetRunning ==
    [][\A p \in Range(Table) :
          p.state = "Waiting" =>
              /\ (SchedLoop /\ pl # <<>>) =>
                    /\ \E k \in Range(Table') : k.id = p.id /\ k.state = "Waiting"
                    /\ hart' # "sched" => last'.ret # p.frame /\ cur' # p.frame
              /\ (\E k \in Range(Table') : k.id = p.id /\ k.state = "Running") =>
                    /\ BlockComplete
                    /\ PROCESS_LIST' = set_running(PROCESS_LIST, p.pid).opt]_vars

(* schedule() has rotated past a Waiting process and returned another one *)
C17_Witness ==
    /\ hart = "proc"
    /\ last.scanned >= 2
    /\ last.ret = cur
    /\ Cur.state = "Running"
    /\ \E p \in Range(Table) : p.state = "Waiting"

(***************************************************************************)
(* C18  The sleep system call leaves its caller Sleeping with wake time    *)
(* mtime + duration; and while the clock advances, timer interrupts keep   *)
(* being taken and schedule() gets the mutex, a sleeper (whose wake time   *)
(* lies within the modelled time) is eventually set Running and returned   *)
(* by schedule(), at a time not before its wake time.                      *)
(***************************************************************************)
Sleeps(id) ==
    \E p \in Range(Table) :
        p.id = id /\ p.state = "Sleeping" /\ p.sleep_until <= MaxTime

Woken(id) ==
    /\ hart = "proc"
    /\ \E p \in Range(Table) :
          /\ p.id = id
          /\ p.state = "Running"
          /\ p.frame = cur
          /\ p.sleep_until <= mtime

C18_SleeperEventuallyRuns ==
    /\ [][\A d \in Durations :
             SysSleep(d) =>
                 \E p \in Range(Table') :
                     /\ p.id = Cur.id
                     /\ p.state = "Sleeping"
                     /\ p.sleep_until = mtime + d]_vars
    /\ \A id \in 1..MaxPid : Sleeps(id) ~> Woken(id)

(* a process that slept has been woken after its wake time and is on the   *)
(* hart                                                                    *)
C18_Witness ==
    /\ hart = "proc"
    /\ last.op = "timer"
    /\ last.ret = cur
    /\ Cur.prog = "user"
    /\ Cur.state = "Running"
    /\ Cur.sleep_until > 0
    /\ Cur.sleep_until <= mtime
    /\ hist = <<>>

(***************************************************************************)
(* C19  set_running(pid) for a process that is Running already returns     *)
(* true and leaves the table as it was, so the frames the next N           *)
(* lock-acquiring schedule() calls return (N the table length) are the     *)
(* frames they return without the call.                                    *)
(***************************************************************************)
RECURSIVE ScheduleSeq(_, _, _)
ScheduleSeq(opt, now, n) ==
    IF n = 0 THEN <<>>
    ELSE LET s == schedule(opt, "Unlocked", now)
         IN  IF ~s.returns THEN <<>>
             ELSE <<s.ret>> \o ScheduleSeq(s.opt, now, n - 1)

C19_SetRunningIdempotent ==
    \A pid \in PidsIn(Table) :
        Table[FirstIdx(Table, pid)].state = "Running" =>
            LET r == set_running(PROCESS_LIST, pid)
            IN  /\ r.ret
                /\ r.opt = PROCESS_LIST
                /\ ScheduleSeq(r.opt, mtime, Len(Table))
                       = ScheduleSeq(PROCESS_LIST, mtime, Len(Table))
                /\ Len(ScheduleSeq(PROCESS_LIST, mtime, Len(Table))) = Len(Table)

(* set_running has been called for a Running process that is not at the    *)
(* front, in a table that also holds processes that are not Running         *)
C19_Witness ==
    /\ hart = "api"
    /\ last.op = "set_running"
    /\ last.ret = 1
    /\ last.id # 0
    /\ Len(Table) >= 3
    /\ Table[1].id # last.id
    /\ \E p \in Range(Table) : p.state # "Running"

(***************************************************************************)
(* C20  A kernel process (spawned by add_kernel_process or                 *)
(* add_kernel_process_args) whose entry function has returned lands in     *)
(* ra_delete_proc, whose exit system call removes it from the table and    *)
(* tears it down, the function itself having called no exit; and           *)
(* schedule() does not return it afterwards.  (The process is told by its  *)
(* identity: the allocator may hand its frame's address to a process       *)
(* created later.)                                                         *)
(***************************************************************************)
KernelReturned == HasCur /\ Cur.prog # "user" /\ Cur.pc = "ret"

C20_ReturnedKernelProcessRemoved ==
    [][/\ (SysExit /\ KernelReturned) =>
             /\ Cur.id \notin Ids(Range(Table'))
             /\ IdOrder(Table') \in {IdOrder(RemoveAt(Table, CurIdx)),
                                    IdOrder(rotate_left(RemoveAt(Table, CurIdx)))}
             /\ freed' = freed \o drop(Cur)
       /\ (hart = "sched" /\ hart' = "proc") =>
             \A k \in Range(Table') :
                 k.frame = last'.ret => k.id \notin FreedIds']_vars

(* test_elf or exec_func has returned and been removed, and schedule() has *)
(* gone on to another process                                              *)
C20_Witness ==
    /\ hart = "proc"
    /\ last.op = "exit"
    /\ last.id \in FreedIds
    /\ Len(FreedOf(last.id)) = 4
    /\ last.id \notin Ids(Range(Table))
    /\ last.ret = cur
    /\ Cur.id # last.id

(***************************************************************************)
(* C21  add_kernel_process_args(f, a), called with the mutex free: when    *)
(* the table is there it returns the non-zero pid of a new process that    *)
(* stands at the back of the table, Running, with frame pc = f, A0 = a,    *)
(* machine mode and frame.pid = that pid, the entries that were there      *)
(* unchanged; when the table has been moved out it returns 0 and adds      *)
(* nothing; either way the mutex is unlocked on return.                    *)
(* (NEXT_PID stays far below the point where the u16 counter wraps.)       *)
(***************************************************************************)
AddsAtBack(opt, f, a) ==
    LET r == add_kernel_process_args(opt, "Unlocked", NEXT_PID, UsedFrames,
                                     NextId, f, a)
        n == Len(opt.v)
    IN  /\ ~r.spin
        /\ r.m = "Unlocked"
        /\ IF opt.some
           THEN /\ r.pid # 0
                /\ r.pid = NEXT_PID
                /\ r.opt.some
                /\ Len(r.opt.v) = n + 1
                /\ TableKey(SubSeq(r.opt.v, 1, n)) = TableKey(opt.v)
                /\ r.opt.v[n + 1].id \notin Ids(Range(opt.v))
                /\ r.opt.v[n + 1].pid = r.pid
                /\ r.opt.v[n + 1].frame_pid = r.pid
                /\ r.opt.v[n + 1].state = "Running"
                /\ r.opt.v[n + 1].prog = f
                /\ r.opt.v[n + 1].pc = "start"
                /\ r.opt.v[n + 1].arg = a
                /\ r.opt.v[n + 1].mode = "Machine"
                /\ r.opt.v[n + 1].frame \notin Frames(opt.v)
           ELSE /\ r.pid = 0
                /\ r.opt = opt
                /\ r.next_pid = NEXT_PID

C21_AddKernelProcessArgsAppends ==
    \A opt \in {PROCESS_LIST, None}, a \in Images :
        AddsAtBack(opt, "exec_func", a)

(* a process made by add_kernel_process_args stands at the back of a table *)
(* whose older entries are not all Running                                 *)
C21_Witness ==
    /\ hart = "api"
    /\ PROCESS_LIST_MUTEX = "Unlocked"
    /\ Len(Table) >= 3
    /\ Table[Len(Table)].id = Len(created)
    /\ Table[Len(Table)].pid = NEXT_PID - 1
    /\ Table[Len(Table)].prog = "exec_func"
    /\ Table[Len(Table)].state = "Running"
    /\ \E p \in Range(Table) : p.state = "Waiting"

(***************************************************************************)
(* C22  try_lock leaves the mutex Locked and returns true exactly when it  *)
(* found it Unlocked, in one step; so between two unlock() calls at most   *)
(* one acquisition (try_lock by schedule(), spin_lock, sleep_lock by       *)
(* exec_func) succeeds: the contexts that have acquired PROCESS_LIST_MUTEX *)
(* and not yet unlocked it are never more than one, and the mutex is       *)
(* Locked while there is one.                                              *)
(***************************************************************************)
LockHolders ==
    {p.id : p \in {q \in Range(Table) :
                      q.prog = "exec_func" /\ q.pc \in {"take", "push", "unlock"}}}
    \cup (IF hart = "sched" THEN {0} ELSE {})

C22_TryLockExcludes ==
    /\ \A m \in {"Unlocked", "Locked"} :
          /\ try_lock(m).ok <=> m = "Unlocked"
          /\ try_lock(m).m = "Locked"
    /\ Cardinality(LockHolders) <= 1
    /\ LockHolders # {} => PROCESS_LIST_MUTEX = "Locked"

(* schedule() holds the mutex while an exec_func is about to sleep_lock it *)
C22_Witness ==
    /\ hart = "sched"
    /\ PROCESS_LIST_MUTEX = "Locked"
    /\ LockHolders = {0}
    /\ \E p \in Range(Table) : p.prog = "exec_func" /\ p.pc = "lock"

(***************************************************************************)
(* KmemSpec: kmalloc, kzmalloc and kfree called in any order on the pool   *)
(* kmem::init left, kfree with null or any pointer the allocator has       *)
(* returned so far.                                                        *)
(***************************************************************************)
Requests == {0, 1, 8, 9, 16, 8 * MaxHeapWords}

KMalloc(sz) ==
    /\ hart = "api"
    /\ LET r == kmalloc(kmem, sz)
       IN  /\ kmem' = r.mem
           /\ kptrs' = kptrs \cup ({r.ret} \ {0})
           /\ hart' = IF r.hangs THEN "spin" ELSE hart
           /\ last' = [NoLast EXCEPT !.op = "kmalloc", !.arg = sz, !.ret = r.ret,
                                     !.hangs = r.hangs]
    /\ UNCHANGED <<PROCESS_LIST, PROCESS_LIST_MUTEX, NEXT_PID, pl, cur, trap, mtime,
                   mtimecmp, ring, ub, freed, created, hist, pages>>

KZmalloc(sz) ==
    /\ hart = "api"
    /\ LET r == kzmalloc(kmem, sz)
       IN  /\ kmem' = r.mem
           /\ kptrs' = kptrs \cup ({r.ret} \ {0})
           /\ hart' = IF r.hangs THEN "spin" ELSE hart
           /\ last' = [NoLast EXCEPT !.op = "kzmalloc", !.arg = sz, !.ret = r.ret,
                                     !.hangs = r.hangs]
    /\ UNCHANGED <<PROCESS_LIST, PROCESS_LIST_MUTEX, NEXT_PID, pl, cur, trap, mtime,
                   mtimecmp, ring, ub, freed, created, hist, pages>>

KFree(ptr) ==
    /\ hart = "api"
    /\ LET r == kfree(kmem, ptr)
       IN  /\ kmem' = r.mem
           /\ last' = [NoLast EXCEPT !.op = "kfree", !.arg = ptr, !.ret = r.ret,
                                     !.zero = r.zero]
    /\ UNCHANGED <<PROCESS_LIST, PROCESS_LIST_MUTEX, NEXT_PID, pl, hart, cur, trap,
                   mtime, mtimecmp, ring, ub, freed, created, hist, kptrs, pages>>

KmemNext ==
    \/ \E sz \in Requests : KMalloc(sz)
    \/ \E sz \in Requests : KZmalloc(sz)
    \/ \E ptr \in kptrs \cup {0} : KFree(ptr)

KmemSpec == ApiInit /\ [][KmemNext]_vars

(***************************************************************************)
(* CoalesceSpec: kfree on a pool whose words hold anything, as after a     *)
(* stray store of the kernel into the heap.                                *)
(***************************************************************************)
ImageInit ==
    /\ PROCESS_LIST = kinit.opt
    /\ PROCESS_LIST_MUTEX = kinit.m
    /\ NEXT_PID = kinit.next_pid
    /\ pl = <<>>
    /\ hart = "api"
    /\ cur = 0
    /\ trap = NoTrap
    /\ mtime = 0
    /\ mtimecmp = schedule_next_context_switch(0, 0, 1)
    /\ ring = <<>>
    /\ ub = FALSE
    /\ kmem \in [1..MaxImageWords -> [taken : BOOLEAN, size : {0, 8, 16}]]
    /\ kptrs = {8 * i : i \in 1..MaxImageWords}
    /\ pages = NoPages
    /\ freed = <<>>
    /\ created = <<1, 2>>
    /\ hist = <<>>
    /\ last = NoLast

CoalesceSpec == ImageInit /\ [][\E ptr \in kptrs : KFree(ptr)]_vars

(***************************************************************************)
(* C23  After any sequence of kmalloc, kzmalloc and kfree calls, walking   *)
(* the block list from KMEM_HEAD by each block's size meets no block of    *)
(* size zero and lands exactly on the pool's end, so that the sizes sum to *)
(* the pool's byte size; and the data region of every taken block shares   *)
(* no byte with the header or the data of any other block.                 *)
(***************************************************************************)
WalkLandsOnEnd(mem) ==
    LET bs == Blocks(mem, 0)
        RECURSIVE SumSizes(_)
        SumSizes(s) == IF s = <<>> THEN 0 ELSE Head(s).size + SumSizes(Tail(s))
    IN  /\ bs # <<>>
        /\ \A i \in 1..Len(bs) : bs[i].size > 0
        /\ bs[Len(bs)].addr + bs[Len(bs)].size = tail(mem)
        /\ SumSizes(bs) = tail(mem)

C23_BlocksTileThePool ==
    /\ WalkLandsOnEnd(kmem)
    /\ LET bs == Blocks(kmem, 0)
           DataRegion(b) == {a \in 0..tail(kmem) : b.addr + HeaderSize <= a /\ a < b.addr + b.size}
           WholeRegion(b) == {a \in 0..tail(kmem) : b.addr <= a /\ a < b.addr + b.size}
       IN  \A i, j \in 1..Len(bs) :
              (i # j /\ bs[i].taken) => DataRegion(bs[i]) \cap WholeRegion(bs[j]) = {}

C23_Witness ==
    /\ last.op = "kfree"
    /\ last.arg # 0
    /\ LET bs == Blocks(kmem, 0)
       IN  /\ Len(bs) >= 3
           /\ \E i, j \in 1..Len(bs) : i < j /\ ~bs[i].taken /\ bs[j].taken /\ bs[j].size > HeaderSize

(* what kmalloc looks for: sz rounded up to 8 bytes plus one header, and   *)
(* the first free block in address order that is at least that large       *)
Needed(sz) ==
    (CHOOSE n \in sz..(sz + 7) : n % 8 = 0) + HeaderSize

FirstFit(bs, need) ==
    LET fit == {i \in 1..Len(bs) : ~bs[i].taken /\ bs[i].size >= need}
    IN  IF fit = {} THEN 0 ELSE CHOOSE i \in fit : \A j \in fit : i <= j

(***************************************************************************)
(* C24  kmalloc(sz) takes the first block in address order that is free    *)
(* and whose size is at least sz rounded up to 8 bytes plus one header and *)
(* returns the address of its data.  If what remains of the block exceeds  *)
(* one header's size, the block becomes a taken block of exactly the       *)
(* needed size followed by a free block holding the remainder; otherwise   *)
(* the whole block is taken with its size unchanged.  No other block and   *)
(* no other word of the pool is modified.                                  *)
(***************************************************************************)
C24_KmallocFirstFitSplit ==
    \A sz \in Requests :
    LET mem == kmem
        bs == Blocks(mem, 0)
        need == Needed(sz)
        k == FirstFit(bs, need)
        r == kmalloc(mem, sz)
        b == bs[k]
        taken == IF b.size - need > HeaderSize
                 THEN <<[addr |-> b.addr, size |-> need, taken |-> TRUE],
                        [addr |-> b.addr + need, size |-> b.size - need, taken |-> FALSE]>>
                 ELSE <<[b EXCEPT !.taken = TRUE]>>
    IN  k # 0 =>
           /\ ~r.hangs
           /\ r.ret = b.addr + HeaderSize
           /\ Blocks(r.mem, 0) = SubSeq(bs, 1, k - 1) \o taken \o SubSeq(bs, k + 1, Len(bs))
           /\ \A a \in {8 * (i - 1) : i \in 1..Len(mem)} :
                 Word(r.mem, a) # Word(mem, a)
                    => a = b.addr \/ (Len(taken) = 2 /\ a = b.addr + need)

C24_Witness ==
    /\ last.op = "kmalloc"
    /\ last.ret # 0
    /\ LET bs == Blocks(kmem, 0)
       IN  \E i, k \in 1..Len(bs) :
              /\ i < k
              /\ ~bs[i].taken /\ bs[i].size < Needed(last.arg)
              /\ bs[k].addr + HeaderSize = last.ret
              /\ bs[k].taken /\ bs[k].size = Needed(last.arg) + HeaderSize

(***************************************************************************)
(* C25  kfree(p) marks exactly p's block free and then merges a free block *)
(* only with the free block that immediately follows it: every block left  *)
(* is a block as it was (p's block now free) or one free block joined with *)
(* its free successor, and no taken block changes its size or flag.  So    *)
(* after kmalloc(a), kmalloc(b), kfree(first) a kmalloc of at most a bytes *)
(* succeeds in the same pool, and the second block is still taken with the *)
(* size it had.                                                            *)
(***************************************************************************)
C25_KfreeMergesForwardOnly ==
    LET FreesAndMergesForward(mem, p) ==
         LET bs == Blocks(mem, 0)
             r == kfree(mem, p)
             after == Blocks(r.mem, 0)
             mid == [i \in 1..Len(bs) |->
                        IF bs[i].addr + HeaderSize = p THEN [bs[i] EXCEPT !.taken = FALSE]
                        ELSE bs[i]]
         IN  /\ r.ret = 1
             /\ WalkLandsOnEnd(r.mem)
             /\ \A i \in 1..Len(mid) : mid[i].taken => mid[i] \in Range(after)
             /\ \A b \in Range(after) :
                   \/ b \in Range(mid)
                   \/ /\ ~b.taken
                      /\ \E i \in 1..(Len(mid) - 1) :
                            /\ ~mid[i].taken /\ ~mid[i + 1].taken
                            /\ b.addr = mid[i].addr
                            /\ b.size = mid[i].size + mid[i + 1].size
             /\ \A i \in 1..Len(bs) :
                   bs[i].addr + HeaderSize = p =>
                      \E b \in Range(after) :
                         ~b.taken /\ b.addr <= bs[i].addr
                                  /\ bs[i].addr + bs[i].size <= b.addr + b.size

        FreedFirstIsReusable(mem, a, b) ==
            LET r1 == kmalloc(mem, a)
                r2 == kmalloc(r1.mem, b)
                r3 == kfree(r2.mem, r1.ret)
            IN  (r1.ret # 0 /\ r2.ret # 0) =>
                   /\ Word(r3.mem, r2.ret - HeaderSize) = Word(r2.mem, r2.ret - HeaderSize)
                   /\ is_taken(Word(r3.mem, r2.ret - HeaderSize))
                   /\ \A c \in Requests :
                         c <= a =>
                            LET r4 == kmalloc(r3.mem, c)
                            IN  /\ r4.ret # 0
                                /\ tail(r4.mem) = tail(mem)
                                /\ r4.ret # r2.ret
                                /\ Word(r4.mem, r2.ret - HeaderSize)
                                      = Word(r2.mem, r2.ret - HeaderSize)
    IN  /\ \A p \in kptrs \cup {0} : FreesAndMergesForward(kmem, p)
        /\ \A a, b \in Requests : FreedFirstIsReusable(kmem, a, b)

C25_Witness ==
    /\ last.op = "kfree"
    /\ last.arg # 0
    /\ LET bs == Blocks(kmem, 0)
       IN  \E i \in 1..(Len(bs) - 2) :
              /\ ~bs[i].taken /\ bs[i].size > HeaderSize
              /\ bs[i].addr < last.arg - HeaderSize
              /\ last.arg - HeaderSize < bs[i].addr + bs[i].size
              /\ ~bs[i + 1].taken
              /\ bs[i + 2].taken

(***************************************************************************)
(* C26  When no free block is large enough for the request (sz rounded up  *)
(* to 8 bytes plus one header), kmalloc and kzmalloc return null: the      *)
(* search ends at the pool's end, the kernel goes on, and every word of    *)
(* the pool, so every block's size and taken flag, is as it was.           *)
(***************************************************************************)
C26_ExhaustedReturnsNull ==
    /\ \A sz \in Requests :
          FirstFit(Blocks(kmem, 0), Needed(sz)) = 0 =>
             /\ kmalloc(kmem, sz) = [mem |-> kmem, ret |-> 0, hangs |-> FALSE]
             /\ kzmalloc(kmem, sz) = [mem |-> kmem, ret |-> 0, hangs |-> FALSE]
    /\ hart = "api"
    /\ ~last.hangs
    /\ (last.op \in {"kmalloc", "kzmalloc"} /\ last.ret = 0)
          => FirstFit(Blocks(kmem, 0), Needed(last.arg)) = 0

C26_Witness ==
    /\ last.op = "kmalloc"
    /\ last.ret = 0
    /\ last.arg < 8 * MaxHeapWords
    /\ \E b \in Range(Blocks(kmem, 0)) : ~b.taken /\ b.size < Needed(last.arg)
    /\ \E b \in Range(Blocks(kmem, 0)) : b.taken

(***************************************************************************)
(* C27  If the coalescing scan that kfree runs meets a block whose size    *)
(* field is zero, the kernel stops with a fatal error: kfree does not come *)
(* back to its caller with the hart still running on the corrupted heap.   *)
(***************************************************************************)
C27_ZeroSizeIsFatal ==
    (last.op = "kfree" /\ last.zero) => hart = "panic"

(***************************************************************************)
(* C28  In every machine external interrupt in which the claim register is *)
(* read as a non-zero id, the handler selected by the id's range runs      *)
(* (virtio for 1..8, the UART for 10, the message for an unknown id        *)
(* otherwise) and then exactly one completion is written, with that id;    *)
(* when the claim is 0 no handler runs and nothing is completed.           *)
(***************************************************************************)
C28_ClaimedIdCompletedOnce ==
    last.irq =>
       IF last.arg = 0
       THEN last.handler = "none" /\ last.completed = <<>>
       ELSE /\ last.handler \in {"block", "spurious"} <=> last.arg \in 1..8
            /\ last.handler = "uart" <=> last.arg = 10
            /\ last.handler # "none"
            /\ last.completed = <<last.arg>>
            /\ hart # "panic"

C28_Witness ==
    /\ last.op = "complete"
    /\ last.irq
    /\ last.arg = BlockIrq
    /\ last.handler = "block"
    /\ last.ret = 1
    /\ last.completed = <<BlockIrq>>

(***************************************************************************)
(* SyscallSpec: do_syscall's arms that give the caller an answer in A0,    *)
(* called by a user process whose MMU is on.  a0 is the call's first       *)
(* argument (a file descriptor or a user pointer), open tells that the     *)
(* descriptor is in the process's table, translates that virt_to_phys      *)
(* finds the pointer, exists that MinixFileSystem::open finds the path.    *)
(* File contents and lengths are one byte.                                 *)
(***************************************************************************)
MinusOne == -1                               \* -1isize as usize

do_syscall(number, a0, open, translates, exists) ==
    CASE number = 11 ->
            IF ~translates THEN [a0 |-> a0, panics |-> TRUE]
            ELSE IF exists THEN [a0 |-> a0, panics |-> FALSE]
            ELSE [a0 |-> MinusOne, panics |-> FALSE]
      [] number = 17 ->
            [a0 |-> IF ~translates THEN MinusOne ELSE a0, panics |-> FALSE]
      [] number = 57 ->
            [a0 |-> IF open THEN 0 ELSE MinusOne, panics |-> FALSE]
      [] number = 63 ->
            [a0 |-> IF a0 = 0 /\ translates THEN 1 ELSE 0, panics |-> FALSE]
      [] number = 64 ->
            [a0 |-> IF a0 \in {1, 2} THEN 1 ELSE IF ~open THEN 0 ELSE a0,
             panics |-> FALSE]
      [] number = 1024 ->
            [a0 |-> IF ~translates \/ ~exists THEN MinusOne ELSE 3, panics |-> FALSE]
      [] OTHER -> [a0 |-> a0, panics |-> FALSE]

ApiDoSyscall(number, a0, open, translates, exists) ==
    /\ hart = "api"
    /\ LET r == do_syscall(number, a0, open, translates, exists)
       IN  /\ hart' = IF r.panics THEN "panic" ELSE hart
           /\ last' = [NoLast EXCEPT !.op = "do_syscall", !.arg = number, !.a0 = a0,
                                     !.open = open, !.translates = translates,
                                     !.exists = exists, !.ret = r.a0,
                                     !.panics = r.panics]
    /\ UNCHANGED <<PROCESS_LIST, PROCESS_LIST_MUTEX, NEXT_PID, pl, cur, trap, mtime,
                   mtimecmp, ring, ub, others, freed, created, hist>>

SyscallSpec ==
    ApiInit /\ [][\E number \in {0, 11, 17, 57, 63, 64, 1024}, a0 \in {0, 1, 3},
                     open, translates, exists \in BOOLEAN :
                     ApiDoSyscall(number, a0, open, translates, exists)]_vars

(***************************************************************************)
(* C29  Every system call that fails (a number do_syscall has no arm for,  *)
(* a file descriptor that is not open, a user pointer that does not        *)
(* translate, open or execv of a path that does not exist) comes back with *)
(* -1 in the caller's A0.                                                  *)
(***************************************************************************)
C29_FailedCallReturnsMinusOne ==
    LET arms == {1, 2, 8, 10, 11, 17, 48, 57, 63, 64, 66, 80, 93, 94, 172, 180, 214,
                 1000, 1001, 1002, 1004, 1024, 1062}
        fails == \/ last.arg \notin arms
                 \/ last.arg \in {57, 63, 64} /\ last.a0 \notin {0, 1, 2} /\ ~last.open
                 \/ last.arg \in {11, 17, 1024} /\ ~last.translates
                 \/ last.arg \in {11, 1024} /\ last.translates /\ ~last.exists
    IN  (last.op = "do_syscall" /\ fails) => (last.ret = MinusOne /\ ~last.panics)

(***************************************************************************)
(* PageSpec: processes are built by new_default and torn down, in any      *)
(* order.  pages.gone is the process the last teardown dropped, pages.log  *)
(* what that teardown deallocated.                                         *)
(***************************************************************************)
(* a destructor that leaves the stack to unmap *)
drop_pages_leaves_stack(st, p) ==
    LET Tag(pgs, what) == [i \in 1..Len(pgs) |-> [page |-> pgs[i], by |-> what]]
    IN  Tag(unmap(st, p.root), "branches") \o Tag(page_dealloc(st, p.root), "root")
        \o Tag(page_dealloc(st, p.frame), "frame")

(* impl Drop for Process on pages: what each step of drop deallocates, in  *)
(* drop's order; a process new_default built has a null program            *)
drop_pages(st, p) ==
    LET Tag(pgs, what) == [i \in 1..Len(pgs) |-> [page |-> pgs[i], by |-> what]]
        Frees(what) ==
            CASE what = "stack" -> page_dealloc(st, p.stack)
              [] what = "branches" -> unmap(st, p.root)
              [] what = "root" -> page_dealloc(st, p.root)
              [] what = "frame" -> page_dealloc(st, p.frame)
              [] OTHER -> <<>>
        order == drop([id |-> 0, prog |-> "new_default"])
        RECURSIVE All(_)
        All(i) == IF i > Len(order) THEN <<>>
                  ELSE Tag(Frees(order[i].what), order[i].what) \o All(i + 1)
    IN  All(1)

NewDefault(func) ==
    /\ hart = "api"
    /\ Len(pages.procs) < MaxProcs
    /\ \E r \in {new_default(pages, func)} :
           /\ r.ok
           /\ pages' = [r.st EXCEPT !.procs = Append(@, r.proc), !.gone = <<>>,
                                    !.log = <<>>]
    /\ UNCHANGED <<PROCESS_LIST, PROCESS_LIST_MUTEX, NEXT_PID, pl, hart, cur, trap,
                   mtime, mtimecmp, ring, ub, freed, created, hist, last, kmem, kptrs>>

DropProcess(i) ==
    /\ hart = "api"
    /\ i \in 1..Len(pages.procs)
    /\ \E log \in {drop_pages(pages, pages.procs[i])} :
       \E out \in {{e.page : e \in Range(log)}} :
           pages' = [pages EXCEPT !.taken = @ \ out,
                                  !.len = [q \in 1..MaxPages |-> IF q \in out THEN 0 ELSE @[q]],
                                  !.procs = RemoveAt(@, i),
                                  !.gone = <<pages.procs[i]>>,
                                  !.log = log]
    /\ UNCHANGED <<PROCESS_LIST, PROCESS_LIST_MUTEX, NEXT_PID, pl, hart, cur, trap,
                   mtime, mtimecmp, ring, ub, freed, created, hist, last, kmem, kptrs>>

PageSpec ==
    ApiInit /\ [][\/ \E func \in {<<2, 0, 1>>, <<2, 1, 0>>} : NewDefault(func)
                  \/ \E i \in 1..MaxProcs : DropProcess(i)]_vars

(***************************************************************************)
(* C30: when a process whose stack was mapped at STACK_ADDR is torn down,  *)
(* unmap frees the table pages the stack mappings created, each once, and  *)
(* none of the stack pages; everything unmap frees is a table page of that *)
(* process's own mappings, each freed once; the stack pages are freed once *)
(* each, by the destructor's dealloc of the stack.                         *)
(***************************************************************************)
C30_UnmapFreesBranchesNotStack ==
    pages.gone # <<>> =>
        LET p == pages.gone[1]
            log == pages.log
            stack == p.stack..(p.stack + STACK_PAGES - 1)
            Freed(pg, by) == Cardinality({i \in DOMAIN log : log[i].page = pg
                                                             /\ log[i].by = by})
            Total(pg) == Cardinality({i \in DOMAIN log : log[i].page = pg})
        IN  /\ \A b \in p.stack_tables : Freed(b, "branches") = 1 /\ Total(b) = 1
            /\ \A s \in stack : Freed(s, "branches") = 0 /\ Freed(s, "stack") = 1
                                /\ Total(s) = 1
            /\ {e.page : e \in {x \in Range(log) : x.by = "branches"}} = p.tables
            /\ \A t \in p.tables : Total(t) = 1
            /\ p.tables \cap stack = {}

(* a process is torn down while another lives; its stack mappings made two *)
(* table pages and every stack page translated from STACK_ADDR on          *)
C30_Witness ==
    /\ pages.gone # <<>>
    /\ pages.procs # <<>>
    /\ Cardinality(pages.gone[1].stack_tables) = 2
    /\ \A i \in 0..(STACK_PAGES - 1) :
          \E e2, e1, e0 \in pages.tbl :
              /\ e2.page = pages.gone[1].root /\ e2.idx = STACK_ADDR[1] /\ ~e2.leaf
              /\ e1.page = e2.ppn /\ e1.idx = STACK_ADDR[2] /\ ~e1.leaf
              /\ e0.page = e1.ppn /\ e0.idx = STACK_ADDR[3] + i /\ e0.leaf
              /\ e0.ppn = pages.gone[1].stack + i
    /\ Len(pages.log) = STACK_PAGES + Cardinality(pages.gone[1].tables) + 2

(***************************************************************************)
(* MapSpec: the kernel's root table (kmem::init), then map and             *)
(* id_map_range on it in any order, as kinit calls them.  pages.maps is    *)
(* history: for every page passed to map, the physical address passed      *)
(* with it last.                                                           *)
(***************************************************************************)
KmemPageTable ==
    /\ hart = "api"
    /\ pages.root = 0
    /\ \E a \in {page_zalloc(pages, 1)} : pages' = [a.st EXCEPT !.root = a.ptr]
    /\ UNCHANGED <<PROCESS_LIST, PROCESS_LIST_MUTEX, NEXT_PID, pl, hart, cur, trap,
                   mtime, mtimecmp, ring, ub, freed, created, hist, last, kmem, kptrs>>

Map(vaddr, paddr) ==
    /\ hart = "api"
    /\ pages.root # 0
    /\ \E m \in {map(pages, pages.root, vpn(vaddr), paddr)} :
           /\ 0 \notin Range(m.made)
           /\ pages' = [m.st EXCEPT !.maps = {x \in @ : x.v # vaddr}
                                             \cup {[v |-> vaddr, p |-> paddr]}]
    /\ UNCHANGED <<PROCESS_LIST, PROCESS_LIST_MUTEX, NEXT_PID, pl, hart, cur, trap,
                   mtime, mtimecmp, ring, ub, freed, created, hist, kmem, kptrs>>
    /\ last' = [NoLast EXCEPT !.op = "map", !.arg = vaddr, !.ret = paddr]

IdMapRange(start, end) ==
    /\ hart = "api"
    /\ pages.root # 0
    /\ start <= end
    /\ \E r \in {id_map_range(pages, pages.root, start, end)} :
           /\ 0 \notin Range(r.made)
           /\ pages' = [r.st EXCEPT !.maps = {x \in @ : x.v \notin Range(r.calls)}
                                             \cup {[v |-> a, p |-> a] : a \in Range(r.calls)}]
           /\ last' = [NoLast EXCEPT !.op = "id_map_range", !.arg = start, !.ret = end,
                                     !.len = Len(r.calls)]
    /\ UNCHANGED <<PROCESS_LIST, PROCESS_LIST_MUTEX, NEXT_PID, pl, hart, cur, trap,
                   mtime, mtimecmp, ring, ub, freed, created, hist, kmem, kptrs>>

MapSpec ==
    ApiInit /\ [][\/ KmemPageTable
                  \/ \E vaddr \in {0, 4096, 2093056, 2097152}, paddr \in {12288} :
                         Map(vaddr, paddr)
                  \/ \E start \in {0, 2048, 2093056, 2095104}, len \in {0, 1, 4096, 4097} :
                         IdMapRange(start, start + len)]_vars

(***************************************************************************)
(* C31: in the kernel's table, every page that was passed to map           *)
(* translates to the physical address passed with it last, and every page  *)
(* that was never passed to map is reported as not found.                  *)
(***************************************************************************)
C31_MapRoundTrip ==
    pages.root # 0 =>
        \A v2 \in 0..1, v1 \in 0..2, v0 \in {0, 1, 2, 511} :
            LET vaddr == v2 * 2^30 + v1 * 2^21 + v0 * PAGE_SIZE
                mapped == {x \in pages.maps : x.v = vaddr}
            IN  /\ mapped # {} =>
                     \A x \in mapped : virt_to_phys(pages, pages.root, vpn(vaddr)) = Some(x.p)
                /\ mapped = {} => virt_to_phys(pages, pages.root, vpn(vaddr)) = None

(* id_map_range has mapped the two pages a range across a table boundary   *)
(* touches, a page was mapped a second time to another address, and a page *)
(* of the same last-level table was never mapped                           *)
C31_Witness ==
    /\ last.op = "id_map_range" /\ last.len = 2
    /\ last.arg % PAGE_SIZE # 0
    /\ [v |-> 2093056, p |-> 2093056] \in pages.maps
    /\ [v |-> 2097152, p |-> 2097152] \in pages.maps
    /\ [v |-> 0, p |-> 12288] \in pages.maps
    /\ \A x \in pages.maps : x.v # 4096
    /\ virt_to_phys(pages, pages.root, vpn(0)) = Some(12288)
    /\ virt_to_phys(pages, pages.root, vpn(4096)) = None

(***************************************************************************)
(* C32: whenever an arm of m_trap has switched (timer, system call,        *)
(* illegal instruction, page fault), the hart runs on the frame of a       *)
(* process that is in the table: never on the no-change value, the         *)
(* placeholder or the frame of a deleted process.                          *)
(***************************************************************************)
C32_TrapSwitchesIntoTableFrame ==
    last.op \in {"timer", "fault", "exit", "yield", "sleep", "exec", "exec_nofile",
                 "block"}
        => /\ hart # "wild"
           /\ hart = "proc" => cur \in Frames(Table) \ {NoChange, Placeholder}

(***************************************************************************)
(* C33: every value schedule() returns is the no-change value 0 or the     *)
(* frame of the process that is then at the front of the table and         *)
(* Running, also when the call found the table taken out of PROCESS_LIST.  *)
(***************************************************************************)
C33_ScheduleReturnsFrontOrNoChange ==
    [][ScheduleReturns =>
          \/ last'.ret = NoChange
          \/ /\ Table' # <<>>
             /\ Table'[1].frame = last'.ret
             /\ Table'[1].state = "Running"]_vars

(***************************************************************************)
(* WindowSpec: a process-context routine takes the table out of            *)
(* PROCESS_LIST and puts it back (test_elf, test.rs 298-306), processes    *)
(* issue block reads, and the block device's interrupt may arrive at any   *)
(* point, also inside the window; system calls arrive outside it only.     *)
(***************************************************************************)
ApiTake ==
    /\ hart = "api"
    /\ PROCESS_LIST.some
    /\ PROCESS_LIST' = None
    /\ pl' = PROCESS_LIST.v
    /\ last' = [NoLast EXCEPT !.op = "take"]
    /\ UNCHANGED <<PROCESS_LIST_MUTEX, NEXT_PID, hart, cur, trap, mtime, mtimecmp,
                   ring, ub, others, freed, created, hist>>

ApiReplace ==
    /\ hart = "api"
    /\ ~PROCESS_LIST.some
    /\ NEXT_PID < MaxApiPid
    /\ LET b == test_elf_build(TRUE, GoodImage, NEXT_PID, UsedFrames, NextId)
       IN  /\ PROCESS_LIST' = Some(pl \o b.proc)
           /\ NEXT_PID' = b.next_pid
           /\ created' = Append(created, b.proc[1].pid)
    /\ pl' = <<>>
    /\ last' = [NoLast EXCEPT !.op = "replace"]
    /\ UNCHANGED <<PROCESS_LIST_MUTEX, hart, cur, trap, mtime, mtimecmp, ring, ub,
                   others, freed, hist>>

WindowSpec ==
    ApiInit /\ [][\/ ApiTake
                  \/ ApiReplace
                  \/ ApiPending
                  \/ PROCESS_LIST.some /\ \E pid \in 1..MaxApiPid : ApiBlockRead(pid)]_vars

(***************************************************************************)
(* C34: a set_running(pid) that the block device's interrupt handler       *)
(* issues for a process that is in the table leaves that process Running,  *)
(* also when the table is out of PROCESS_LIST at that moment.              *)
(***************************************************************************)
C34_InterruptWakeupNeverLost ==
    [][(ApiPending /\ Head(ring) \in PidsIn(Table)) =>
          Table'[FirstIdx(Table', Head(ring))].state = "Running"]_vars

(***************************************************************************)
(* C35: a process that a system call has put into Waiting has a request    *)
(* queued whose completion will call set_running on it; none is left       *)
(* Waiting with nothing registered to wake it.                             *)
(***************************************************************************)
C35_WaitingHasPendingWakeup ==
    \A p \in Range(Table) : p.state = "Waiting" => p.pid \in Range(ring)

(***************************************************************************)
(* C36: when the exit system call or a fatal fault has been handled, the   *)
(* table holds every process it held when the trap was taken, except the   *)
(* process that trapped, and nothing else has left it.                     *)
(***************************************************************************)
C36_ExitAndFaultRemoveCallerOnly ==
    [][(ScheduleReturns /\ last'.op \in {"exit", "fault"}) =>
          LET pre == IF hart = "sched" THEN trap.before ELSE Table
          IN  /\ last'.id \in Ids(Range(pre))
              /\ Ids(Range(Table')) = Ids(Range(pre)) \ {last'.id}
              /\ Len(Table') = Len(pre) - 1]_vars

(* a process that was not at the back of a table of three or more has      *)
(* exited, and the others are all still there                              *)
C36_Witness ==
    /\ last.op = "exit"
    /\ hart = "proc"
    /\ Len(Table) >= 2
    /\ last.id \notin Ids(Range(Table))
    /\ \E p \in Range(Table) : p.id > last.id
    /\ \E p \in Range(Table) : p.id < last.id

(***************************************************************************)
(* C37: a schedule() call that acquired the lock neither adds nor removes  *)
(* a table entry and changes the order only by rotation; the only field of *)
(* a process it changes is the state of the entry it returns, from         *)
(* Sleeping to Running.  Stated for the call's entry from the arms that do *)
(* nothing else to the table, for every iteration of its loop and for its  *)
(* return.                                                                 *)
(***************************************************************************)
C37_ScheduleOnlyRotatesAndWakes ==
    [][/\ (TimerTrap \/ SysYield \/ Boot) => Table' = Table
       /\ (SchedLoop /\ hart' # "panic") =>
             LET n == Len(pl)
                 q == Table'
                 Same(a, b) == [a EXCEPT !.waited = 0, !.state = "Running"]
                               = [b EXCEPT !.waited = 0, !.state = "Running"]
             IN  /\ Len(q) = n
                 /\ \E k \in 0..(n - 1) :
                       \A i \in 1..n :
                          LET old == pl[((i + k - 1) % n) + 1]
                          IN  /\ Same(q[i], old)
                              /\ \/ q[i].state = old.state
                                 \/ /\ i = 1 /\ hart' # "sched"
                                    /\ q[i].frame = last'.ret
                                    /\ old.state = "Sleeping"
                                    /\ q[i].state = "Running"]_vars

(* a schedule() call that found two or more entries has returned with as   *)
(* many in the table, the front one a sleeper it has woken                 *)
C37_Witness ==
    /\ last.op \in {"timer", "yield", "sleep", "exit", "fault", "block"}
    /\ hart = "proc"
    /\ last.len >= 2
    /\ Len(Table) = last.len
    /\ Table[1].frame = last.ret
    /\ Table[1].state = "Running"
    /\ Table[1].sleep_until > 0
    /\ hist = <<>>
    /\ \A i \in 2..Len(Table) : Table[i].sleep_until = 0

(***************************************************************************)
(* C38: a schedule() call that finds PROCESS_LIST_MUTEX locked leaves it   *)
(* locked and does not touch the table; a call that finds it free holds it *)
(* while it works and has released it when it returns, with the table back *)
(* in PROCESS_LIST if the call took it out.                                *)
(***************************************************************************)
C38_ScheduleReleasesOnlyItsOwnLock ==
    [][/\ (TrapEntry /\ PROCESS_LIST_MUTEX = "Locked" /\ hart' # "spin") =>
              /\ PROCESS_LIST_MUTEX' = "Locked"
              /\ hart' # "sched"
              /\ pl' = pl
       /\ (TrapEntry /\ PROCESS_LIST_MUTEX = "Unlocked" /\ hart' = "sched") =>
              /\ PROCESS_LIST_MUTEX' = "Locked"
              /\ ~PROCESS_LIST'.some
       /\ (TrapEntry /\ PROCESS_LIST_MUTEX = "Unlocked" /\ ScheduleReturns) =>
              /\ PROCESS_LIST_MUTEX' = "Unlocked"
              /\ pl' = pl
       /\ (SchedLoop /\ ScheduleReturns) =>
              /\ PROCESS_LIST_MUTEX' = "Unlocked"
              /\ PROCESS_LIST'.some
              /\ pl' = <<>>]_vars

(* exec_func holds the mutex with the table taken out, and a timer trap's  *)
(* schedule() has come back leaving both as they were                      *)
C38_Witness ==
    /\ last.op = "timer"
    /\ last.ret = NoChange
    /\ PROCESS_LIST_MUTEX = "Locked"
    /\ ~PROCESS_LIST.some
    /\ pl # <<>>
    /\ hart = "proc"
    /\ Cur.prog = "exec_func"

(***************************************************************************)
(* CreateSpec: the process-creation entry points, called from a context    *)
(* other than the kernel process that may hold the mutex (ApiSleepLock,    *)
(* ApiUnlock) or may have the table out of PROCESS_LIST (ApiTake,          *)
(* ApiReplace).                                                            *)
(***************************************************************************)

(* process.rs add_kernel_process(func) *)
ApiAddKernelProcess ==
    /\ hart = "api"
    /\ NEXT_PID < MaxApiPid
    /\ \E a \in {add_kernel_process(PROCESS_LIST, PROCESS_LIST_MUTEX, NEXT_PID,
                                    UsedFrames, NextId, "test_elf")} :
          /\ PROCESS_LIST' = a.opt
          /\ PROCESS_LIST_MUTEX' = a.m
          /\ NEXT_PID' = a.next_pid
          /\ created' = IF a.pid = 0 THEN created ELSE Append(created, a.pid)
          /\ last' = [NoLast EXCEPT !.op = "add", !.ret = a.pid]
    /\ hist' = <<>>
    /\ UNCHANGED <<pl, hart, cur, trap, mtime, mtimecmp, ring, ub, others, freed>>

CreateSpec ==
    ApiInit /\ [][\/ ApiAddKernelProcess
                  \/ ApiAddKernelProcessArgs
                  \/ ApiSleepLock
                  \/ ApiUnlock
                  \/ ApiTake
                  \/ ApiReplace
                  \/ \E pid \in 1..MaxApiPid : ApiDeleteProcess(pid)]_vars

(***************************************************************************)
(* C39: a process-creation call that is entered while another context      *)
(* holds PROCESS_LIST_MUTEX does not release it: the mutex is still        *)
(* Locked when the call is over (or the call is spinning for it).          *)
(***************************************************************************)
C39_CreationUnlocksOnlyItsOwnLock ==
    [][((ApiAddKernelProcess \/ ApiAddKernelProcessArgs)
            /\ PROCESS_LIST_MUTEX = "Locked") =>
          PROCESS_LIST_MUTEX' = "Locked"]_vars

====
